---- MODULE Spec2Model ----
(***************************************************************************)
(* Model of the Antigravity Context MCP server, version 4.0.0: the session *)
(* index, the note journal and the encrypted credential vault.             *)
(*                                                                         *)
(* Text is modelled at character level: a string is a sequence of          *)
(* one-character strings, so that trim, split, includes and toLowerCase    *)
(* are computed the way the JavaScript code computes them.                 *)
(***************************************************************************)
EXTENDS Integers, Sequences, FiniteSets, TLC

VARIABLES
    brainRoot,  \* whether BRAIN_DIR exists
    brain,      \* the entries of BRAIN_DIR: name -> [kind, mtime, files]
    clock,      \* the minute the server last read the wall clock at
    result,     \* the result of the last tool call
    appended,   \* history: per session name, the notes save_note appended
    proj,       \* the project directory: .credentials, .credentials.enc, .gitignore
    machine,    \* the machine identity and runtime the server process runs under
    last,       \* history: the project directory before the last vault call, and
                \* the storage fault injected into that call
    calls       \* the tool calls in progress when the host does not serialize
                \* them: per call its arguments, its position and its locals

vars == <<brainRoot, brain, clock, result, appended, proj, machine, last, calls>>

---------------------------------------------------------------------------
\* Bounds of the model

MaxNotes == 2

---------------------------------------------------------------------------
\* JavaScript string primitives

\* what String.prototype.trim removes (the part of it the model's alphabet has)
WhiteSpace == {" ", "\n", "\t", "\r"}

\* the line terminators of a regular expression's ^ and $ under the m flag
LineTerminators == {"\n", "\r"}

IsBlank(s) == \A i \in 1..Len(s) : s[i] \in WhiteSpace

\* the first index >= i of s that holds no white space, Len(s) + 1 when there is none
RECURSIVE SkipWhiteSpace(_, _)
SkipWhiteSpace(s, i) ==
    IF i > Len(s) \/ s[i] \notin WhiteSpace THEN i ELSE SkipWhiteSpace(s, i + 1)

\* the last index <= i of s that holds no white space, 0 when there is none
RECURSIVE SkipWhiteSpaceBack(_, _)
SkipWhiteSpaceBack(s, i) ==
    IF i < 1 \/ s[i] \notin WhiteSpace THEN i ELSE SkipWhiteSpaceBack(s, i - 1)

TrimStart(s) == SubSeq(s, SkipWhiteSpace(s, 1), Len(s))

Trim(s) == SubSeq(s, SkipWhiteSpace(s, 1), SkipWhiteSpaceBack(s, Len(s)))

StartsWith(s, p) == Len(p) <= Len(s) /\ SubSeq(s, 1, Len(p)) = p

\* sub occurs in s at index i
OccursAt(s, sub, i) ==
    \A k \in 1..Len(sub) : s[i + k - 1] = sub[k]

Includes(s, sub) ==
    \E i \in 1..(Len(s) - Len(sub) + 1) : OccursAt(s, sub, i)

\* String.prototype.indexOf, 0-based, -1 when absent
IndexOf(s, sub) ==
    IF Includes(s, sub)
    THEN (CHOOSE i \in 1..(Len(s) - Len(sub) + 1) :
              /\ OccursAt(s, sub, i)
              /\ \A j \in 1..(i-1) : ~OccursAt(s, sub, j)) - 1
    ELSE -1

LowerChar(c) ==
    CASE c = "A" -> "a" [] c = "B" -> "b" [] c = "D" -> "d" [] c = "F" -> "f"
      [] c = "G" -> "g" [] c = "H" -> "h" [] c = "I" -> "i" [] c = "K" -> "k"
      [] c = "L" -> "l" [] c = "N" -> "n" [] c = "O" -> "o" [] c = "S" -> "s"
      [] c = "T" -> "t" [] c = "U" -> "u" [] c = "X" -> "x"
      [] OTHER -> c

ToLowerCase(s) == [i \in 1..Len(s) |-> LowerChar(s[i])]

\* Array.prototype.slice(0, n): a negative n counts from the end
Slice0(seq, n) ==
    LET e == IF n < 0 THEN (IF Len(seq) + n < 0 THEN 0 ELSE Len(seq) + n)
             ELSE (IF n > Len(seq) THEN Len(seq) ELSE n)
    IN  SubSeq(seq, 1, e)

Min(a, b) == IF a <= b THEN a ELSE b

\* the k-th smallest element of a finite set of integers
KthSmallest(S, k) == CHOOSE x \in S : Cardinality({ y \in S : y < x }) = k - 1

\* the pieces of s between the separators that start at the indices in starts,
\* all of length sepLen: what String.prototype.split returns for separators that
\* cannot overlap
Pieces(s, starts, sepLen) ==
    LET n == Cardinality(starts)
        from(k) == IF k = 1 THEN 1 ELSE KthSmallest(starts, k - 1) + sepLen
        to(k) == IF k = n + 1 THEN Len(s) ELSE KthSmallest(starts, k) - 1
    IN  [k \in 1..(n + 1) |-> SubSeq(s, from(k), to(k))]

\* a piece without the "\r" that /\r?\n/ takes with the "\n" after it
DropCarriageReturn(piece, isLast) ==
    IF ~isLast /\ piece # <<>> /\ piece[Len(piece)] = "\r"
    THEN SubSeq(piece, 1, Len(piece) - 1) ELSE piece

\* split(/\r?\n/)
SplitLines(s) ==
    LET raw == Pieces(s, { q \in 1..Len(s) : s[q] = "\n" }, 1)
    IN  [k \in 1..Len(raw) |-> DropCarriageReturn(raw[k], k = Len(raw))]

\* replace(/^#+\s*/, "")
RECURSIVE DropWhile(_, _)
DropWhile(s, chars) ==
    IF s # <<>> /\ Head(s) \in chars THEN DropWhile(Tail(s), chars) ELSE s

StripHeadingMarker(s) ==
    IF s # <<>> /\ Head(s) = "#" THEN DropWhile(DropWhile(s, {"#"}), WhiteSpace) ELSE s

---------------------------------------------------------------------------
\* Text literals

T_SessionNotes == <<"#"," ","S","e","s","s","i","o","n"," ","N","o","t","e","s">>
T_Rule == <<"-","-","-">>
T_Untitled == <<"U","n","t","i","t","l","e","d"," ","s","e","s","s","i","o","n">>

\* names of the entries of BRAIN_DIR
A1 == <<"a","1">>
B2 == <<"b","2">>
C3 == <<"c","3">>
F0 == <<"f","0">>
G7 == <<"g","7">>
DotDot == <<".",".">>
TempMediaStorage ==
    <<"t","e","m","p","m","e","d","i","a","S","t","o","r","a","g","e">>

\* the order in which readdirSync returns the entries
DirOrder == << A1, B2, C3, F0, G7, TempMediaStorage >>
EntryNames == { DirOrder[i] : i \in 1..Len(DirOrder) }

ArtifactFiles == << "task.md", "walkthrough.md", "implementation_plan.md" >>
AllFiles == << "task.md", "walkthrough.md", "implementation_plan.md", "session_notes.md" >>
FileNames == { AllFiles[i] : i \in 1..Len(AllFiles) }

\* contents of artifact files
TaskText == <<"#"," ","F","i","x","\n","o","k">>
PlanText == <<"p","l","a","n"," ","d","b">>
WalkText == <<"d","i","d">>
BlankText == <<" ","\n">>

\* note bodies, tags and queries the tool calls are drawn from
N_FixDb == <<"F","i","x"," ","d","b">>
N_Ruled == <<"a","\n","-","-","-","\n","#","t","o","d","o">>
Tag_Todo == <<"t","o","d","o">>
Q_Fix == <<"f","I","X">>

NoFile == [ex |-> FALSE, txt |-> <<>>]
FileOf(t) == [ex |-> TRUE, txt |-> t]
NoFiles == [f \in FileNames |-> NoFile]
NoEntry == [kind |-> "none", mtime |-> 0, files |-> NoFiles]

---------------------------------------------------------------------------
\* Helpers of the server

\* readFileSafe on a file of a BRAIN_DIR entry: "" when it cannot be read
readFileSafe(name, file) ==
    IF brainRoot /\ name \in EntryNames /\ brain[name].kind = "dir"
       /\ brain[name].files[file].ex
    THEN brain[name].files[file].txt
    ELSE <<>>

\* validateSessionId: "" when the id is accepted, else the error message
HexDash == {"a","b","c","d","e","f","A","B","C","D","E","F",
            "0","1","2","3","4","5","6","7","8","9","-"}

\* mutant of validateSessionId: the format of the id is not tested
validateSessionId_NoFormat(id) ==
    IF id = <<>> THEN "session_id is required" ELSE ""

validateSessionId(id) ==
    IF id = <<>> THEN "session_id is required"
    ELSE IF \E i \in 1..Len(id) : id[i] \notin HexDash THEN "Invalid session_id format"
    ELSE ""

\* mutant of hasArtifacts: the journal qualifies a directory too
hasArtifacts_WithNotes(name) ==
    \E i \in 1..Len(AllFiles) : Len(Trim(readFileSafe(name, AllFiles[i]))) > 0

hasArtifacts(name) ==
    \E i \in 1..Len(ArtifactFiles) : Len(Trim(readFileSafe(name, ArtifactFiles[i]))) > 0

\* mutant of InsertByMtime: the comparison is a.mtime - b.mtime
RECURSIVE InsertByMtime_Ascending(_, _)
InsertByMtime_Ascending(x, sorted) ==
    IF sorted = <<>> THEN << x >>
    ELSE IF Head(sorted).mtime <= x.mtime
         THEN << Head(sorted) >> \o InsertByMtime_Ascending(x, Tail(sorted))
         ELSE << x >> \o sorted

\* Array.prototype.sort((a, b) => b.mtime - a.mtime), a stable sort
RECURSIVE InsertByMtime(_, _)
InsertByMtime(x, sorted) ==
    IF sorted = <<>> THEN << x >>
    ELSE IF Head(sorted).mtime >= x.mtime
         THEN << Head(sorted) >> \o InsertByMtime(x, Tail(sorted))
         ELSE << x >> \o sorted

RECURSIVE SortByMtimeDesc(_)
SortByMtimeDesc(seq) ==
    IF seq = <<>> THEN <<>>
    ELSE InsertByMtime(seq[Len(seq)], SortByMtimeDesc(SubSeq(seq, 1, Len(seq) - 1)))

IsSessionDir(name) == brain[name].kind = "dir" /\ name # TempMediaStorage

\* mutant of FolderInfo: every directory counts as having artifacts
FolderInfo_NoFilter(name) ==
    [name |-> name, mtime |-> brain[name].mtime, hasArtifacts |-> TRUE]

FolderInfo(name) ==
    [name |-> name, mtime |-> brain[name].mtime, hasArtifacts |-> hasArtifacts(name)]

\* readdirSync(BRAIN_DIR).filter(...).map(...).filter((f) => f.hasArtifacts), from
\* the i-th entry on
RECURSIVE foldersFrom(_)
foldersFrom(i) ==
    IF i > Len(DirOrder) THEN <<>>
    ELSE (IF IsSessionDir(DirOrder[i]) /\ FolderInfo(DirOrder[i]).hasArtifacts
          THEN << FolderInfo(DirOrder[i]) >> ELSE <<>>) \o foldersFrom(i + 1)

getBrainFoldersSorted ==
    IF ~brainRoot THEN <<>> ELSE SortByMtimeDesc(foldersFrom(1))

IsHeadingLine(l) == StartsWith(Trim(l), <<"#">>)
IsNonBlankLine(l) == Len(Trim(l)) > 0

\* lines.find(...): the index of the first heading line, 0 when there is none
FirstHeadingLine(lines) ==
    IF \E i \in 1..Len(lines) : IsHeadingLine(lines[i])
    THEN CHOOSE i \in 1..Len(lines) :
             IsHeadingLine(lines[i]) /\ \A j \in 1..(i-1) : ~IsHeadingLine(lines[j])
    ELSE 0

\* lines.find(...): the index of the first non-blank line, 0 when there is none
FirstNonBlankLine(lines) ==
    IF \E i \in 1..Len(lines) : IsNonBlankLine(lines[i])
    THEN CHOOSE i \in 1..Len(lines) :
             IsNonBlankLine(lines[i]) /\ \A j \in 1..(i-1) : ~IsNonBlankLine(lines[j])
    ELSE 0

extractTitle(name) ==
    LET taskContent == readFileSafe(name, "task.md")
        planLines == SplitLines(readFileSafe(name, "implementation_plan.md"))
        taskLines == SplitLines(taskContent)
    IN  IF Trim(taskContent) = <<>>
        THEN LET i == FirstHeadingLine(planLines)
             IN  IF i > 0 THEN Trim(StripHeadingMarker(planLines[i])) ELSE T_Untitled
        ELSE LET h == FirstHeadingLine(taskLines)
                 n == FirstNonBlankLine(taskLines)
             IN  IF h > 0 THEN Trim(StripHeadingMarker(taskLines[h]))
                 ELSE IF n > 0 THEN SubSeq(Trim(taskLines[n]), 1, Min(80, Len(Trim(taskLines[n]))))
                 ELSE T_Untitled

---------------------------------------------------------------------------
\* The note journal

Digit(n) == CASE n = 0 -> "0" [] n = 1 -> "1" [] n = 2 -> "2" [] n = 3 -> "3"
              [] n = 4 -> "4" [] n = 5 -> "5" [] n = 6 -> "6" [] n = 7 -> "7"
              [] n = 8 -> "8" [] OTHER -> "9"

\* new Date().toISOString().replace("T", " ").slice(0, 16) at minute t of the hour
NowText(t) ==
    <<"2","0","2","6","-","0","2","-","1","9"," ","1","0",":">>
        \o << Digit(t \div 10), Digit(t % 10) >>

\* the entry block appendNote writes
EntryBlock(now, note, tag) ==
    LET tagStr == IF tag # <<>> THEN <<" ","#">> \o tag ELSE <<>>
    IN  <<"#","#","#"," ","[">> \o now \o <<"]">> \o tagStr \o <<"\n">>
            \o note \o <<"\n","\n">> \o T_Rule \o <<"\n","\n">>

\* mutant of appendNote: the journal is written anew on every call
appendNote_Overwrite(file, now, note, tag) ==
    FileOf(T_SessionNotes \o <<"\n","\n">> \o EntryBlock(now, note, tag))

\* appendNote: the content of session_notes.md after the call
appendNote(file, now, note, tag) ==
    IF ~file.ex
    THEN FileOf(T_SessionNotes \o <<"\n","\n">> \o EntryBlock(now, note, tag))
    ELSE FileOf(file.txt \o EntryBlock(now, note, tag))

\* /^---$/m matches at position q of s
RuleAt(s, q) ==
    /\ s[q] = "-"
    /\ q + 2 <= Len(s)
    /\ OccursAt(s, T_Rule, q)
    /\ (q = 1 \/ s[q-1] \in LineTerminators)
    /\ (q + 3 > Len(s) \/ s[q+3] \in LineTerminators)

\* content.split(/^---$/m)
SplitRule(s) == Pieces(s, { q \in 1..Len(s) : RuleAt(s, q) }, Len(T_Rule))

\* parts.map((e) => e.trim()).filter(Boolean), from the i-th part on
RECURSIVE trimmedNonEmpty(_, _)
trimmedNonEmpty(parts, i) ==
    IF i > Len(parts) THEN <<>>
    ELSE (IF Trim(parts[i]) # <<>> THEN << Trim(parts[i]) >> ELSE <<>>)
         \o trimmedNonEmpty(parts, i + 1)

\* content.split(/^---$/m).map((e) => e.trim()).filter(Boolean)
journalEntries(content) == trimmedNonEmpty(SplitRule(content), 1)

matchesQuery(entry, query) ==
    query = <<>> \/ Includes(ToLowerCase(entry), ToLowerCase(query))

matchesTag(entry, tag) ==
    tag = <<>> \/ Includes(entry, <<"#">> \o tag)

\* mutant of entryMatches: either filter suffices
entryMatches_Either(entry, query, tag) ==
    matchesQuery(entry, query) \/ matchesTag(entry, tag)

entryMatches(entry, query, tag) ==
    matchesQuery(entry, query) /\ matchesTag(entry, tag)

\* the results searchNotes pushes for one folder
RECURSIVE folderResults(_, _, _, _, _)
folderResults(folder, entries, i, query, tag) ==
    IF i > Len(entries) THEN <<>>
    ELSE (IF ~StartsWith(entries[i], T_SessionNotes) /\ entryMatches(entries[i], query, tag)
          THEN << [sessionId |-> folder.name, date |-> folder.mtime,
                   title |-> extractTitle(folder.name), entry |-> entries[i]] >>
          ELSE <<>>)
         \o folderResults(folder, entries, i + 1, query, tag)

RECURSIVE searchFolders(_, _, _, _)
searchFolders(folders, k, query, tag) ==
    IF k > Len(folders) THEN <<>>
    ELSE LET content == readFileSafe(folders[k].name, "session_notes.md")
         IN  (IF Trim(content) = <<>> THEN <<>>
              ELSE folderResults(folders[k], journalEntries(content), 1, query, tag))
             \o searchFolders(folders, k + 1, query, tag)

searchNotes(query, tag, lastN) ==
    searchFolders(Slice0(getBrainFoldersSorted, lastN), 1, query, tag)

---------------------------------------------------------------------------
\* Tool calls on the session store

DefaultLastN == 5
MaxLastN == 20

\* the arguments of the save_note calls: an absent argument is the empty string
SaveNoteArgs ==
    { [note |-> N_FixDb, tag |-> <<>>,     session_id |-> <<>>],
      [note |-> N_FixDb, tag |-> Tag_Todo, session_id |-> A1],
      [note |-> N_Ruled, tag |-> <<>>,     session_id |-> A1],
      [note |-> N_FixDb, tag |-> Tag_Todo, session_id |-> C3],
      [note |-> <<>>,    tag |-> <<>>,     session_id |-> A1],
      [note |-> N_FixDb, tag |-> <<>>,     session_id |-> DotDot] }

\* the arguments of the recall_notes calls: last_n is <<>> when absent, else <<n>>
RecallNotesArgs ==
    { [query |-> <<>>,  tag |-> <<>>,     last_n |-> <<>>],
      [query |-> Q_Fix, tag |-> Tag_Todo, last_n |-> <<>>],
      [query |-> <<>>,  tag |-> Tag_Todo, last_n |-> <<1>>],
      [query |-> Q_Fix, tag |-> <<>>,     last_n |-> <<1>>] }

NotesAppended ==
    LET RECURSIVE Sum(_)
        Sum(i) == IF i > Len(DirOrder) THEN 0 ELSE Len(appended[DirOrder[i]]) + Sum(i + 1)
    IN  Sum(1)

\* mutant of Failed: the handler has no catch block and the error leaves it
Failed_Escapes(op, msg) == [op |-> op, status |-> "threw", error |-> msg]

\* the catch block of a handler: the error becomes the text of the result
Failed(op, msg) == [op |-> op, status |-> "failed", error |-> msg]

\* mutant of saveNoteTarget: the note argument is not checked
saveNoteTarget_NoNoteCheck(note, sid) ==
    IF sid # <<>>
    THEN [err |-> validateSessionId(sid), name |-> sid]
    ELSE IF getBrainFoldersSorted = <<>>
         THEN [err |-> "No sessions found to save note to", name |-> <<>>]
         ELSE [err |-> "", name |-> getBrainFoldersSorted[1].name]

\* the entry name save_note writes to, or the error it raises before writing
saveNoteTarget(note, sid) ==
    IF note = <<>> THEN [err |-> "note is required and must be a string", name |-> <<>>]
    ELSE IF sid # <<>>
         THEN [err |-> validateSessionId(sid), name |-> sid]
         ELSE IF getBrainFoldersSorted = <<>>
              THEN [err |-> "No sessions found to save note to", name |-> <<>>]
              ELSE [err |-> "", name |-> getBrainFoldersSorted[1].name]

\* the save_note handler, called at minute time
SaveNote(note, tag, sid, time) ==
    LET t == saveNoteTarget(note, sid)
        now == NowText(time)
    IN  /\ NotesAppended < MaxNotes
        /\ UNCHANGED <<proj, machine, last, calls>>
        /\ IF t.err # ""
           THEN /\ result' = Failed("save_note", t.err)
                /\ UNCHANGED <<brainRoot, brain, appended, clock>>
           ELSE IF brainRoot /\ brain[t.name].kind = "file"
           THEN /\ result' = Failed("save_note", "ENOTDIR")
                /\ clock' = time
                /\ UNCHANGED <<brainRoot, brain, appended>>
           ELSE LET isDir == brainRoot /\ brain[t.name].kind = "dir"
                    old == IF isDir THEN brain[t.name] ELSE
                               [kind |-> "dir", mtime |-> time, files |-> NoFiles]
                    journal == old.files["session_notes.md"]
                IN  /\ clock' = time
                    /\ brainRoot' = TRUE
                    /\ brain' = [brain EXCEPT ![t.name] =
                           [kind |-> "dir",
                            mtime |-> IF journal.ex THEN old.mtime ELSE time,
                            files |-> [old.files EXCEPT !["session_notes.md"] =
                                           appendNote(journal, now, note, tag)]]]
                    /\ appended' = [appended EXCEPT ![t.name] =
                           Append(@, [now |-> now, note |-> note, tag |-> tag])]
                    /\ result' = [op |-> "save_note", status |-> "ok",
                                  session |-> t.name, tag |-> tag]

\* the recall_notes handler
RecallNotes(query, tag, last_n) ==
    LET lastN == Min(IF last_n = <<>> THEN DefaultLastN ELSE last_n[1], MaxLastN)
        results == searchNotes(query, tag, lastN)
    IN  /\ result' = [op |-> "recall_notes",
                      status |-> IF results = <<>> THEN "none" ELSE "found",
                      query |-> query, tag |-> tag, lastN |-> lastN,
                      results |-> results]
        /\ UNCHANGED <<brainRoot, brain, clock, appended, proj, machine, last, calls>>

---------------------------------------------------------------------------
\* The states the session store starts in

FilesOf(task, walk, plan) ==
    [f \in FileNames |->
        CASE f = "task.md" -> task
          [] f = "walkthrough.md" -> walk
          [] f = "implementation_plan.md" -> plan
          [] OTHER -> NoFile]

Prof_Task == FilesOf(FileOf(TaskText), NoFile, NoFile)
Prof_Plan == FilesOf(FileOf(BlankText), NoFile, FileOf(PlanText))
Prof_Walk == FilesOf(NoFile, FileOf(WalkText), NoFile)
Prof_Blank == FilesOf(FileOf(BlankText), NoFile, NoFile)

NoProject ==
    [ex |-> FALSE, plain |-> NoFile, enc |-> NoFile, gitignore |-> NoFile,
     context |-> NoFile]
\* shortTags: whether the runtime's setAuthTag takes a tag shorter than 16 bytes
\* without an authTagLength option (Node.js deprecation DEP0182)
HomeMachine == [hostname |-> <<"h","1">>, username |-> <<"u","1">>, shortTags |-> TRUE]

\* the artifacts of the session directories a1 and b2 at the start
InitProfiles ==
    { <<Prof_Task, Prof_Task>>, <<Prof_Plan, NoFiles>>,
      <<Prof_Blank, Prof_Walk>>, <<Prof_Blank, NoFiles>> }

InitBrain ==
    \/ /\ brainRoot = FALSE
       /\ brain = [n \in EntryNames |-> NoEntry]
    \/ /\ brainRoot = TRUE
       /\ \E p \in InitProfiles :
              brain = [n \in EntryNames |->
                  CASE n = A1 -> [kind |-> "dir", mtime |-> 0, files |-> p[1]]
                    [] n = B2 -> [kind |-> "dir", mtime |-> 1, files |-> p[2]]
                    [] n = F0 -> [kind |-> "file", mtime |-> 1, files |-> NoFiles]
                    [] n = TempMediaStorage ->
                           [kind |-> "dir", mtime |-> 1, files |-> Prof_Task]
                    [] OTHER -> NoEntry]

Init ==
    /\ calls = <<>>
    /\ InitBrain
    /\ clock = 1
    /\ result = [op |-> "none", status |-> "ok"]
    /\ appended = [n \in EntryNames |-> <<>>]
    /\ proj = NoProject
    /\ machine = HomeMachine
    /\ last = [proj |-> NoProject, fault |-> "none"]

Next ==
    \/ \E a \in SaveNoteArgs, time \in {clock, clock + 1} :
           SaveNote(a.note, a.tag, a.session_id, time)
    \/ \E a \in RecallNotesArgs : RecallNotes(a.query, a.tag, a.last_n)

Spec == Init /\ [][Next]_vars

---------------------------------------------------------------------------
\* Properties of the note journal and the session index

\* the sessions the last recall_notes call scanned
ScannedWindow == Slice0(getBrainFoldersSorted, result.lastN)
ScannedNames == { ScannedWindow[i].name : i \in 1..Len(ScannedWindow) }

\* the entries the last recall_notes call returned for a session, in order
RECURSIVE ReturnedFrom(_, _)
ReturnedFrom(n, i) ==
    IF i > Len(result.results) THEN <<>>
    ELSE (IF result.results[i].sessionId = n THEN << result.results[i] >> ELSE <<>>)
         \o ReturnedFrom(n, i + 1)

ReturnedFor(n) == ReturnedFrom(n, 1)

\* the text of an appended note as a search result shows it
EntryText(a) ==
    Trim(SubSeq(EntryBlock(a.now, a.note, a.tag), 1,
                Len(EntryBlock(a.now, a.note, a.tag)) - 7))

\* C1: after any sequence of save_note calls, recall_notes with no query and no
\* tag returns every entry appended to the journals of the scanned sessions, one
\* result per appended note, the first note of each journal included.
C1_UnfilteredSearchReturnsEveryNote ==
    (result.op = "recall_notes" /\ result.query = <<>> /\ result.tag = <<>>) =>
        \A n \in ScannedNames :
            /\ Len(ReturnedFor(n)) = Len(appended[n])
            /\ \A i \in 1..Len(appended[n]) :
                   ReturnedFor(n)[i].entry = EntryText(appended[n][i])

HasNonWhiteSpace(t) == \E k \in 1..Len(t) : t[k] \notin WhiteSpace

ContainsIgnoringCase(t, q) ==
    \E i \in 1..(Len(t) - Len(q) + 1) :
        \A k \in 1..Len(q) : LowerChar(t[i + k - 1]) = LowerChar(q[k])

ContainsMarker(t, tag) ==
    \E i \in 1..(Len(t) - Len(tag)) :
        t[i] = "#" /\ \A k \in 1..Len(tag) : t[i + k] = tag[k]

\* what the filters of the last recall_notes call ask of an entry
PassesFilters(e) ==
    /\ result.query # <<>> => ContainsIgnoringCase(e, result.query)
    /\ result.tag # <<>> => ContainsMarker(e, result.tag)

\* the fragments of a scanned session's journal that are entries
JournalFragments(n) ==
    LET es == journalEntries(readFileSafe(n, "session_notes.md"))
    IN  { es[i] : i \in { j \in 1..Len(es) : ~StartsWith(es[j], T_SessionNotes) } }

\* C2: search is conjunctive. Every entry recall_notes returns contains the query
\* (ignoring case) and the marker "#tag", an absent query or tag asks nothing,
\* and every entry of a scanned journal that passes the filters is returned.
C2_SearchIsConjunctive ==
    result.op = "recall_notes" =>
        /\ \A i \in 1..Len(result.results) : PassesFilters(result.results[i].entry)
        /\ \A n \in ScannedNames : \A e \in JournalFragments(n) :
               PassesFilters(e) =>
                   \E i \in 1..Len(result.results) :
                       /\ result.results[i].sessionId = n
                       /\ result.results[i].entry = e

\* C2 witness: a search with a query and a tag returned an entry and left out
\* another entry of the same scanned journals.
C2_Witness ==
    /\ result.op = "recall_notes"
    /\ result.query # <<>> /\ result.tag # <<>>
    /\ result.results # <<>>
    /\ \E n \in ScannedNames : \E e \in JournalFragments(n) : ~PassesFilters(e)

\* a directory entry with non-whitespace content in task.md, walkthrough.md or
\* implementation_plan.md
Qualifies(n) ==
    /\ brainRoot
    /\ brain[n].kind = "dir"
    /\ \E f \in {"task.md", "walkthrough.md", "implementation_plan.md"} :
           brain[n].files[f].ex /\ HasNonWhiteSpace(brain[n].files[f].txt)

ListedNames == { getBrainFoldersSorted[i].name : i \in 1..Len(getBrainFoldersSorted) }

\* C6: a directory is listed by getBrainFoldersSorted if and only if it is not
\* the reserved directory and one of its three qualifying files has
\* non-whitespace content; a notes-only directory is never listed, and
\* recall_notes returns entries of listed sessions only.
C6_ListedIffQualifies ==
    /\ \A n \in EntryNames : n \in ListedNames <=> (Qualifies(n) /\ n # TempMediaStorage)
    /\ result.op = "recall_notes" =>
           \A i \in 1..Len(result.results) : Qualifies(result.results[i].sessionId)

\* C6 witness: a directory whose only non-empty file is the journal stands next
\* to a listed session and to the reserved directory, and a search has run.
C6_Witness ==
    /\ result.op = "recall_notes"
    /\ \E n \in EntryNames :
           /\ brain[n].kind = "dir"
           /\ HasNonWhiteSpace(brain[n].files["session_notes.md"].txt)
           /\ ~Qualifies(n)
    /\ ListedNames # {}
    /\ Qualifies(TempMediaStorage)

---------------------------------------------------------------------------
\* The credential text form

T_General == <<"g","e","n","e","r","a","l">>
\* the header serializeCredentials writes (its em dash written as a hyphen)
T_CredentialsHeader ==
    <<"#"," ","C","r","e","d","e","n","t","i","a","l","s"," ","-"," ","m",
      "a","n","a","g","e","d"," ","b","y"," ","A","n","t","i","g","r","a",
      "v","i","t","y"," ","C","o","n","t","e","x","t"," ","M","C","P","\n",
      "#"," ","D","O"," ","N","O","T"," ","c","o","m","m","i","t"," ","t",
      "h","i","s"," ","f","i","l","e"," ","t","o"," ","G","i","t","!","\n",
      "\n">>
T_GitignoreComment ==
    <<"\n","#"," ","C","r","e","d","e","n","t","i","a","l","s"," ","(","a",
      "u","t","o","-","a","d","d","e","d",")","\n">>
CREDENTIALS_FILENAME == <<".","c","r","e","d","e","n","t","i","a","l","s">>
CREDENTIALS_ENC_FILENAME == CREDENTIALS_FILENAME \o <<".","e","n","c">>

\* A credentials object is the sequence of its sections in insertion order, each
\* [section, pairs], pairs being the sequence of its [key, value] in insertion
\* order: the order Object.entries walks.

HasSection(creds, sec) == \E i \in 1..Len(creds) : creds[i].section = sec

SectionIndex(creds, sec) == CHOOSE i \in 1..Len(creds) : creds[i].section = sec

\* pairs[key] = value
SetPair(pairs, key, value) ==
    IF \E i \in 1..Len(pairs) : pairs[i].key = key
    THEN [i \in 1..Len(pairs) |->
              IF pairs[i].key = key THEN [key |-> key, value |-> value] ELSE pairs[i]]
    ELSE Append(pairs, [key |-> key, value |-> value])

\* if (!creds[currentSection]) creds[currentSection] = {};
\* creds[currentSection][key] = value
Assign(creds, sec, key, value) ==
    IF HasSection(creds, sec)
    THEN [creds EXCEPT ![SectionIndex(creds, sec)].pairs = SetPair(@, key, value)]
    ELSE Append(creds, [section |-> sec, pairs |-> << [key |-> key, value |-> value] >>])

\* the loop of parseCredentialsText from line i on
RECURSIVE parseLines(_, _, _, _)
parseLines(lines, i, currentSection, creds) ==
    IF i > Len(lines) THEN creds
    ELSE LET trimmed == Trim(lines[i])
             eqIdx == IndexOf(trimmed, <<"=">>)
         IN  IF trimmed = <<>> THEN parseLines(lines, i + 1, currentSection, creds)
             ELSE IF StartsWith(trimmed, <<"#">>)
                  THEN parseLines(lines, i + 1, StripHeadingMarker(trimmed), creds)
             ELSE IF eqIdx > 0
                  THEN parseLines(lines, i + 1, currentSection,
                           Assign(creds, currentSection,
                                  Trim(SubSeq(trimmed, 1, eqIdx)),
                                  Trim(SubSeq(trimmed, eqIdx + 2, Len(trimmed)))))
             ELSE parseLines(lines, i + 1, currentSection, creds)

parseCredentialsText(content) == parseLines(SplitLines(content), 1, T_General, <<>>)

RECURSIVE serializePairs(_, _)
serializePairs(pairs, i) ==
    IF i > Len(pairs) THEN <<>>
    ELSE pairs[i].key \o <<"=">> \o pairs[i].value \o <<"\n">> \o serializePairs(pairs, i + 1)

RECURSIVE serializeSections(_, _)
serializeSections(entries, i) ==
    IF i > Len(entries) THEN <<>>
    ELSE <<"#"," ">> \o entries[i].section \o <<"\n">>
             \o serializePairs(entries[i].pairs, 1) \o <<"\n">>
             \o serializeSections(entries, i + 1)

serializeCredentials(entries) == T_CredentialsHeader \o serializeSections(entries, 1)

---------------------------------------------------------------------------
\* Encryption (AES-256-GCM)

(***************************************************************************)
(* Byte strings are symbolic.  The cipher is modelled by its contract: the *)
(* ciphertext and the tag are determined by key, nonce and plaintext, and  *)
(* decryption succeeds only when key, nonce, tag and ciphertext belong     *)
(* together.  The payload text is a sequence of tokens: a run of hex       *)
(* digits (lower or upper case) spelling a byte string, a colon, white     *)
(* space, or characters that are neither.                                  *)
(***************************************************************************)

T_SeedPrefix ==
    <<"a","n","t","i","g","r","a","v","i","t","y","-","c","o","n","t","e",
      "x","t">>

\* the seed of deriveKey
keySeed(m) == T_SeedPrefix \o <<":">> \o m.hostname \o <<":">> \o m.username

\* crypto.scryptSync(seed, "antigravity-salt-v4", 32)
deriveKey(m) == [scrypt |-> keySeed(m), salt |-> "antigravity-salt-v4"]

NoKey == [scrypt |-> <<>>, salt |-> ""]
NoBytes == [kind |-> "empty", key |-> NoKey, iv |-> 0, pt |-> <<>>, len |-> 0]

\* crypto.randomBytes(12), the n-th value it can return
IvBytes(n) == [kind |-> "iv", key |-> NoKey, iv |-> n, pt |-> <<>>, len |-> 12]

\* cipher.update(plaintext) + cipher.final()
CipherBytes(key, n, pt) == [kind |-> "ct", key |-> key, iv |-> n, pt |-> pt, len |-> Len(pt)]

\* cipher.getAuthTag(), and its first len bytes
TagBytes(key, n, pt, len) == [kind |-> "tag", key |-> key, iv |-> n, pt |-> pt, len |-> len]

Colon == [t |-> ":", bytes |-> NoBytes]
Space == [t |-> " ", bytes |-> NoBytes]
Junk == [t |-> "junk", bytes |-> NoBytes]
Hex(b) == [t |-> "hex", bytes |-> b]
HexUpper(b) == [t |-> "HEX", bytes |-> b]

\* `${iv.toString("hex")}:${tag}:${encrypted}`
encryptText(plaintext, m, n) ==
    << Hex(IvBytes(n)), Colon,
       Hex(TagBytes(deriveKey(m), n, plaintext, 16)), Colon,
       Hex(CipherBytes(deriveKey(m), n, plaintext)) >>

\* payload.trim()
RECURSIVE trimPayloadStart(_)
trimPayloadStart(p) ==
    IF p # <<>> /\ Head(p) = Space THEN trimPayloadStart(Tail(p)) ELSE p

RECURSIVE trimPayloadEnd(_)
trimPayloadEnd(p) ==
    IF p # <<>> /\ p[Len(p)] = Space THEN trimPayloadEnd(SubSeq(p, 1, Len(p) - 1)) ELSE p

trimPayload(p) == trimPayloadEnd(trimPayloadStart(p))

\* payload.split(":")
splitColon(p) == Pieces(p, { q \in 1..Len(p) : p[q] = Colon }, 1)

\* Buffer.from(part, "hex"): the bytes the leading hex digits spell, in either
\* case; decoding stops at the first character that is no hex digit
hexDecode(part) ==
    IF part # <<>> /\ part[1].t \in {"hex", "HEX"} THEN part[1].bytes ELSE NoBytes

\* the tag lengths setAuthTag takes
tagLengthOk(tag, m) ==
    /\ tag.kind = "tag"
    /\ \/ tag.len = 16
       \/ m.shortTags /\ tag.len \in {4, 8, 12, 13, 14, 15}

\* the plaintext a ciphertext holds: the empty ciphertext holds the empty plaintext
cipherPlain(ct) == IF ct.kind = "ct" THEN ct.pt ELSE <<>>

\* decipher.final() accepts: tag and ciphertext were made under this key and nonce
authentic(key, iv, tag, ct) ==
    /\ ct.kind \in {"ct", "empty"}
    /\ ct.kind = "ct" => (ct.key = key /\ ct.iv = iv.iv)
    /\ tag.key = key /\ tag.iv = iv.iv /\ tag.pt = cipherPlain(ct)

\* decryptText: [ok, text] with the plaintext, or [ok = FALSE, error]
decryptText(payload, m) ==
    LET key == deriveKey(m)
        parts == splitColon(payload)
        iv == hexDecode(parts[1])
        tag == hexDecode(parts[2])
        ct == hexDecode(parts[3])
    IN  IF Len(parts) < 3
        THEN [ok |-> FALSE, text |-> <<>>, error |-> "Invalid encrypted format"]
        ELSE IF iv.kind # "iv"
        THEN [ok |-> FALSE, text |-> <<>>, error |-> "Invalid initialization vector"]
        ELSE IF ~tagLengthOk(tag, m)
        THEN [ok |-> FALSE, text |-> <<>>, error |-> "Invalid authentication tag length"]
        ELSE IF ~authentic(key, iv, tag, ct)
        THEN [ok |-> FALSE, text |-> <<>>,
              error |-> "Unsupported state or unable to authenticate data"]
        ELSE [ok |-> TRUE, text |-> cipherPlain(ct), error |-> ""]

---------------------------------------------------------------------------
\* The credential vault

\* ensureGitignore: the .gitignore file after the call
ensureGitignore(gitignore, filename) ==
    IF gitignore.ex /\ ~Includes(gitignore.txt, filename)
    THEN FileOf(gitignore.txt \o T_GitignoreComment \o filename \o <<"\n">>)
    ELSE gitignore

\* `Failed to decrypt credentials: ${err.message}. File may be corrupted or
\* created on a different machine.`
DecryptFailed(cause) ==
    [reason |-> "Failed to decrypt credentials", cause |-> cause,
     hint |-> "File may be corrupted or created on a different machine."]

NoError == [reason |-> "", cause |-> "", hint |-> ""]
StorageError(code) == [reason |-> code, cause |-> "", hint |-> ""]

\* the storage faults a call can meet
ReadFaults == {"none", "encrypt", "write", "write-partial", "unlink", "gitignore"}
WriteFaults == {"none", "write", "gitignore"}

\* mutant of migrate: the plaintext file is not deleted
migrate_KeepPlain(p, content, m, n, fault) ==
    IF fault = "encrypt" \/ fault = "write" THEN p
    ELSE IF fault = "write-partial" THEN [p EXCEPT !.enc = FileOf(<<>>)]
    ELSE [p EXCEPT !.enc = FileOf(encryptText(content, m, n)),
                   !.gitignore = IF fault = "none"
                                 THEN ensureGitignore(p.gitignore, CREDENTIALS_ENC_FILENAME)
                                 ELSE p.gitignore]

\* the migration of readCredentials: the project directory it leaves behind when
\* the given step throws
migrate(p, content, m, n, fault) ==
    IF fault = "encrypt" \/ fault = "write" THEN p
    ELSE IF fault = "write-partial" THEN [p EXCEPT !.enc = FileOf(<<>>)]
    ELSE IF fault = "unlink" THEN [p EXCEPT !.enc = FileOf(encryptText(content, m, n))]
    ELSE IF fault = "gitignore"
         THEN [p EXCEPT !.enc = FileOf(encryptText(content, m, n)), !.plain = NoFile]
    ELSE [p EXCEPT !.enc = FileOf(encryptText(content, m, n)),
                   !.plain = NoFile,
                   !.gitignore = ensureGitignore(p.gitignore, CREDENTIALS_ENC_FILENAME)]

\* the plaintext branch of readCredentials
readPlain(p, m, n, fault) ==
    LET content == IF p.plain.ex THEN p.plain.txt ELSE <<>>
    IN  IF Trim(content) = <<>>
        THEN [status |-> "none", creds |-> <<>>, error |-> NoError, proj |-> p]
        ELSE [status |-> "ok", creds |-> parseCredentialsText(content),
              error |-> NoError, proj |-> migrate(p, content, m, n, fault)]

\* mutant of readCredentials: a file that cannot be decrypted is passed over
readCredentials_FallBack(p, m, n, fault) ==
    IF p.enc.ex /\ decryptText(trimPayload(p.enc.txt), m).ok
    THEN [status |-> "ok",
          creds |-> parseCredentialsText(decryptText(trimPayload(p.enc.txt), m).text),
          error |-> NoError, proj |-> p]
    ELSE readPlain(p, m, n, fault)

\* mutant of readCredentials: a failed migration fails the read
readCredentials_Rethrow(p, m, n, fault) ==
    IF p.enc.ex
    THEN LET d == decryptText(trimPayload(p.enc.txt), m)
         IN  IF d.ok
             THEN [status |-> "ok", creds |-> parseCredentialsText(d.text),
                   error |-> NoError, proj |-> p]
             ELSE [status |-> "error", creds |-> <<>>,
                   error |-> DecryptFailed(d.error), proj |-> p]
    ELSE IF fault # "none" /\ readPlain(p, m, n, fault).status = "ok"
         THEN [status |-> "error", creds |-> <<>>, error |-> StorageError("EACCES"),
               proj |-> readPlain(p, m, n, fault).proj]
         ELSE readPlain(p, m, n, fault)

\* readCredentials: what it returns or throws, and the project directory after it
readCredentials(p, m, n, fault) ==
    IF p.enc.ex
    THEN LET d == decryptText(trimPayload(p.enc.txt), m)
         IN  IF d.ok
             THEN [status |-> "ok", creds |-> parseCredentialsText(d.text),
                   error |-> NoError, proj |-> p]
             ELSE [status |-> "error", creds |-> <<>>,
                   error |-> DecryptFailed(d.error), proj |-> p]
    ELSE readPlain(p, m, n, fault)

\* mutant of writeCredentials: the sections are added to those of the vault
writeCredentials_Merge(p, entries, m, n, fault) ==
    LET d == decryptText(trimPayload(p.enc.txt), m)
        old == IF p.enc.ex /\ d.ok THEN parseCredentialsText(d.text) ELSE <<>>
        written == [p EXCEPT !.enc =
                       FileOf(encryptText(serializeCredentials(old \o entries), m, n))]
    IN  IF fault = "write" THEN [status |-> "error", error |-> StorageError("EACCES"), proj |-> p]
        ELSE IF fault = "gitignore" /\ p.gitignore.ex
        THEN [status |-> "error", error |-> StorageError("EACCES"), proj |-> written]
        ELSE [status |-> "ok", error |-> NoError,
              proj |-> [written EXCEPT !.gitignore =
                            ensureGitignore(
                                ensureGitignore(p.gitignore, CREDENTIALS_ENC_FILENAME),
                                CREDENTIALS_FILENAME)]]

\* mutant of writeCredentials: a failed ignore-list update restores the vault
writeCredentials_Rollback(p, entries, m, n, fault) ==
    LET written == [p EXCEPT !.enc = FileOf(encryptText(serializeCredentials(entries), m, n))]
    IN  IF fault = "write" \/ (fault = "gitignore" /\ p.gitignore.ex)
        THEN [status |-> "error", error |-> StorageError("EACCES"), proj |-> p]
        ELSE [status |-> "ok", error |-> NoError,
              proj |-> [written EXCEPT !.gitignore =
                            ensureGitignore(
                                ensureGitignore(p.gitignore, CREDENTIALS_ENC_FILENAME),
                                CREDENTIALS_FILENAME)]]

\* writeCredentials: whether it returns or throws, and the project directory after it
writeCredentials(p, entries, m, n, fault) ==
    LET written == [p EXCEPT !.enc = FileOf(encryptText(serializeCredentials(entries), m, n))]
    IN  IF fault = "write" THEN [status |-> "error", error |-> StorageError("EACCES"), proj |-> p]
        ELSE IF fault = "gitignore" /\ p.gitignore.ex
        THEN [status |-> "error", error |-> StorageError("EACCES"), proj |-> written]
        ELSE [status |-> "ok", error |-> NoError,
              proj |-> [written EXCEPT !.gitignore =
                            ensureGitignore(
                                ensureGitignore(p.gitignore, CREDENTIALS_ENC_FILENAME),
                                CREDENTIALS_FILENAME)]]

---------------------------------------------------------------------------
\* Tool calls on the credential vault

P_Proj == <<"/","p">>
P_Rel == <<"p">>
P_Missing == <<"/","m">>
PathArgs == { P_Proj, <<>>, P_Rel, P_Missing }

\* validatePath(p, "project_path"): "" when the path is accepted, else the message
validatePath(p) ==
    IF p = <<>> THEN "project_path is required"
    ELSE IF p[1] # "/" THEN "project_path must be an absolute path"
    ELSE IF ~(p = P_Proj /\ proj.ex) THEN "project_path not found"
    ELSE ""

Pair(k, v) == [key |-> k, value |-> v]
Section(name, pairs) == [section |-> name, pairs |-> pairs]

T_Hosting == <<"H","o","s","t","i","n","g">>
T_Login == <<"L","O","G","I","N">>
T_Bob == <<"b","o","b">>

\* the credentials arguments of the save_credentials calls
R_Example == << Section(T_Hosting, << Pair(T_Login, T_Bob) >>) >>
R_Two == << Section(<<"H">>, << Pair(<<"L">>, T_Bob), Pair(<<"P">>, <<"a","=","b">>) >>),
            Section(<<"d","b">>, << Pair(<<"u">>, <<"x">>) >>) >>
R_EmptySection == << Section(T_Hosting, <<>>) >>
R_Padded == << Section(<<"s">>, << Pair(<<"K">>, <<" ","x">>) >>) >>

CredentialsArgs ==
    { [given |-> TRUE, value |-> R_Example], [given |-> TRUE, value |-> R_Two],
      [given |-> TRUE, value |-> R_EmptySection], [given |-> TRUE, value |-> R_Padded],
      [given |-> FALSE, value |-> <<>>] }

\* the values crypto.randomBytes(12) returns
Nonces == {1, 2}

\* the get_credentials handler
GetCredentials(path, n, fault) ==
    LET r == readCredentials(proj, machine, n, fault)
    IN  /\ last' = [proj |-> proj, fault |-> fault]
        /\ UNCHANGED <<brainRoot, brain, clock, appended, machine, calls>>
        /\ IF validatePath(path) # ""
           THEN /\ result' = [op |-> "get_credentials", status |-> "failed", path |-> path,
                              creds |-> <<>>, error |-> StorageError(validatePath(path))]
                /\ UNCHANGED proj
           ELSE /\ proj' = r.proj
                /\ result' = [op |-> "get_credentials",
                              status |-> IF r.status = "error" THEN "failed" ELSE r.status,
                              path |-> path, creds |-> r.creds, error |-> r.error]

\* the save_credentials handler
SaveCredentials(path, credentials, n, fault) ==
    LET w == writeCredentials(proj, credentials.value, machine, n, fault)
    IN  /\ last' = [proj |-> proj, fault |-> fault]
        /\ UNCHANGED <<brainRoot, brain, clock, appended, machine, calls>>
        /\ IF validatePath(path) # ""
           THEN /\ result' = [op |-> "save_credentials", status |-> "failed", path |-> path,
                              creds |-> <<>>, error |-> StorageError(validatePath(path))]
                /\ UNCHANGED proj
           ELSE IF ~credentials.given
           THEN /\ result' = [op |-> "save_credentials", status |-> "failed", path |-> path,
                              creds |-> <<>>,
                              error |-> StorageError("credentials must be an object with sections")]
                /\ UNCHANGED proj
           ELSE /\ proj' = w.proj
                /\ result' = [op |-> "save_credentials",
                              status |-> IF w.status = "error" THEN "failed" ELSE "ok",
                              path |-> path, creds |-> credentials.value, error |-> w.error]

\* the encrypted file is damaged outside the server: cut after its first field,
\* or its tag replaced by the tag of another text
Damaged(payload, how) ==
    IF how = "cut" THEN SubSeq(payload, 1, 1)
    ELSE [payload EXCEPT ![3] = Hex([payload[3].bytes EXCEPT !.pt = <<"x">>])]

Damage(how) ==
    /\ proj.enc.ex /\ Len(proj.enc.txt) = 5
    /\ proj' = [proj EXCEPT !.enc = FileOf(Damaged(proj.enc.txt, how))]
    /\ last' = [proj |-> proj, fault |-> "none"]
    /\ result' = [op |-> "none", status |-> "ok"]
    /\ UNCHANGED <<brainRoot, brain, clock, appended, machine, calls>>

---------------------------------------------------------------------------
\* The states the credential vault starts in

OtherMachine == [hostname |-> <<"h","2">>, username |-> <<"u","1">>, shortTags |-> TRUE]

LegacyText == <<"#"," ","s","\n","K","="," ","v","\n">>
GitignoreText == <<"x","\n">>

\* the project holds only the legacy plaintext file (with content or blank), only
\* an encrypted file (written on this machine or on another one), or neither
InitVaultFiles ==
    { [plain |-> NoFile, enc |-> NoFile],
      [plain |-> FileOf(LegacyText), enc |-> NoFile],
      [plain |-> FileOf(BlankText), enc |-> NoFile],
      [plain |-> NoFile,
       enc |-> FileOf(encryptText(serializeCredentials(R_Example), HomeMachine, 1))],
      [plain |-> NoFile,
       enc |-> FileOf(encryptText(serializeCredentials(R_Example), OtherMachine, 1))] }

InitVault ==
    /\ calls = <<>>
    /\ brainRoot = FALSE
    /\ brain = [n \in EntryNames |-> NoEntry]
    /\ clock = 1
    /\ appended = [n \in EntryNames |-> <<>>]
    /\ result = [op |-> "none", status |-> "ok"]
    /\ machine = HomeMachine
    /\ \E f \in InitVaultFiles, g \in {NoFile, FileOf(GitignoreText)} :
           proj = [ex |-> TRUE, plain |-> f.plain, enc |-> f.enc, gitignore |-> g,
                   context |-> NoFile]
    /\ last = [proj |-> proj, fault |-> "none"]

\* the calls of get_credentials: the arguments, the nonce drawn if the call
\* encrypts, and the storage fault it meets, drawn from faults
GetCredentialsCalls(faults) ==
    { [path |-> P_Proj, n |-> n, fault |-> f] : n \in Nonces, f \in faults }
    \cup { [path |-> p, n |-> 1, fault |-> "none"] : p \in PathArgs \ {P_Proj} }

\* the calls of save_credentials
SaveCredentialsCalls(faults) ==
    { [path |-> P_Proj, credentials |-> c, n |-> n, fault |-> "none"] :
          c \in CredentialsArgs, n \in Nonces }
    \cup { [path |-> P_Proj, credentials |-> [given |-> TRUE, value |-> R_Two],
            n |-> 1, fault |-> f] : f \in faults }
    \cup { [path |-> p, credentials |-> [given |-> TRUE, value |-> R_Example],
            n |-> 1, fault |-> "none"] : p \in PathArgs \ {P_Proj} }

\* every storage call succeeds
NextVault ==
    \/ \E c \in GetCredentialsCalls({"none"}) : GetCredentials(c.path, c.n, c.fault)
    \/ \E c \in SaveCredentialsCalls({"none"}) :
           SaveCredentials(c.path, c.credentials, c.n, c.fault)
    \/ \E how \in {"cut", "tag"} : Damage(how)

SpecVault == InitVault /\ [][NextVault]_vars

\* a storage call of the handler may fail
NextVaultFaults ==
    \/ \E c \in GetCredentialsCalls(ReadFaults) : GetCredentials(c.path, c.n, c.fault)
    \/ \E c \in SaveCredentialsCalls(WriteFaults) :
           SaveCredentials(c.path, c.credentials, c.n, c.fault)
    \/ \E how \in {"cut", "tag"} : Damage(how)

SpecVaultFaults == InitVault /\ [][NextVaultFaults]_vars

---------------------------------------------------------------------------
\* Properties of the credential vault

\* a credentials object as a mapping: section name -> key -> value
PairsMap(pairs) ==
    [k \in { pairs[i].key : i \in 1..Len(pairs) } |->
        pairs[CHOOSE i \in 1..Len(pairs) : pairs[i].key = k].value]

AsMap(creds) ==
    [sec \in { creds[i].section : i \in 1..Len(creds) } |->
        PairsMap(creds[SectionIndex(creds, sec)].pairs)]

SameRecord(a, b) == AsMap(a) = AsMap(b)

\* the last call was a get_credentials / save_credentials on the project
ReadDone == result.op = "get_credentials" /\ result.path = P_Proj
WriteDone == result.op = "save_credentials" /\ result.path = P_Proj /\ result.status = "ok"

\* C3: write-credentials(P, R) followed by read-credentials(P) returns exactly R.
C3_WriteThenReadReturnsRecord ==
    [][ (WriteDone /\ ReadDone') =>
            (result'.status = "ok" /\ SameRecord(result'.creds, result.creds)) ]_vars

\* C4: the project never holds both .credentials and .credentials.enc, and after
\* a successful write-credentials .credentials.enc exists and .credentials does not.
C4_NeverBothForms ==
    /\ ~(proj.plain.ex /\ proj.enc.ex)
    /\ WriteDone => (proj.enc.ex /\ ~proj.plain.ex)

\* the project held only a legacy plaintext file before the last call
LegacyOnly(p) == p.plain.ex /\ ~p.enc.ex
LegacyOnlyNonEmpty(p) == LegacyOnly(p) /\ p.plain.txt # <<>>
LegacyOnlyNonBlank(p) == LegacyOnly(p) /\ HasNonWhiteSpace(p.plain.txt)

MigrationDone == ~proj.plain.ex /\ proj.enc.ex

\* C5 as stated: for a project holding only a non-empty .credentials, after the
\* first read the plaintext file is gone and .credentials.enc exists, and a
\* second read returns the same record.
C5_MigrationIdempotent_NonEmpty ==
    [][ (ReadDone /\ LegacyOnlyNonEmpty(last.proj)) =>
            /\ MigrationDone
            /\ ReadDone' => (result'.status = result.status /\ result'.creds = result.creds) ]_vars

\* C5 amended: for a project holding only a .credentials with non-whitespace
\* content, the first read returns the record parsed from it, leaves no plaintext
\* file and leaves .credentials.enc; a second read returns the same record and
\* changes nothing.
C5_MigrationIdempotent ==
    [][ (ReadDone /\ LegacyOnlyNonBlank(last.proj)) =>
            /\ MigrationDone
            /\ result.status = "ok"
            /\ result.creds = parseCredentialsText(last.proj.plain.txt)
            /\ ReadDone' => (result'.status = "ok" /\ result'.creds = result.creds
                             /\ proj' = proj) ]_vars

\* C5 witness: a read was served from the encrypted file a migration wrote.
C5_Witness ==
    /\ ReadDone /\ result.status = "ok"
    /\ ~last.proj.plain.ex /\ last.proj.enc.ex
    /\ \E n \in Nonces : last.proj.enc.txt = encryptText(LegacyText, machine, n)
    /\ SameRecord(result.creds, << Section(<<"s">>, << Pair(<<"K">>, <<"v">>) >>) >>)

\* a line of the ignore list is the file name
HasLine(text, name) == \E i \in 1..Len(SplitLines(text)) : SplitLines(text)[i] = name

\* C7: after a successful write-credentials on a project with a .gitignore, the
\* .gitignore lists .credentials.enc and .credentials as entries of their own;
\* without a .gitignore none is created by a write or by a migrating read.
C7_GitignoreListsBoth ==
    /\ (WriteDone /\ last.proj.gitignore.ex) =>
           /\ HasLine(proj.gitignore.txt, CREDENTIALS_ENC_FILENAME)
           /\ HasLine(proj.gitignore.txt, CREDENTIALS_FILENAME)
    /\ ((WriteDone \/ ReadDone) /\ ~last.proj.gitignore.ex) => ~proj.gitignore.ex

\* the payload is what encryptText writes on this machine
WrittenHere(payload) ==
    /\ Len(payload) = 5
    /\ payload[1].bytes.kind = "iv"
    /\ payload = encryptText(payload[5].bytes.pt, machine, payload[1].bytes.iv)

\* C9: when .credentials.enc exists and cannot be decrypted, read-credentials
\* reports the decryption error with the corrupted-or-other-machine hint and
\* touches nothing (no fallback to the plaintext file); "no credentials found"
\* is reported only when the encrypted file is absent and the plaintext file is
\* absent or blank.
C9_ReadOutcomes ==
    ReadDone =>
        /\ (last.proj.enc.ex /\ ~WrittenHere(last.proj.enc.txt)) =>
               /\ result.status = "failed"
               /\ result.error.reason = "Failed to decrypt credentials"
               /\ result.error.hint = "File may be corrupted or created on a different machine."
               /\ proj = last.proj
        /\ result.status = "none" =>
               /\ ~last.proj.enc.ex
               /\ ~last.proj.plain.ex \/ ~HasNonWhiteSpace(last.proj.plain.txt)

\* C9 witness: the read failed on a damaged encrypted file while a plaintext
\* file with content lay next to it.
C9_Witness ==
    /\ ReadDone /\ result.status = "failed"
    /\ last.proj.enc.ex /\ ~WrittenHere(last.proj.enc.txt)
    /\ last.proj.plain.ex /\ HasNonWhiteSpace(last.proj.plain.txt)

\* C10: when the read falls back to a legacy file with content and a step of the
\* migration fails, the read still returns the record parsed from the plaintext.
C10_MigrationFailureKeepsRead ==
    (ReadDone /\ LegacyOnlyNonBlank(last.proj) /\ last.fault # "none") =>
        /\ result.status = "ok"
        /\ result.creds = parseCredentialsText(last.proj.plain.txt)
        /\ SameRecord(result.creds, << Section(<<"s">>, << Pair(<<"K">>, <<"v">>) >>) >>)

\* C10 witness: the plaintext file could not be deleted; the read succeeded and
\* both files are left.
C10_Witness ==
    /\ ReadDone /\ LegacyOnlyNonBlank(last.proj) /\ last.fault = "unlink"
    /\ result.status = "ok"
    /\ proj.plain.ex /\ proj.enc.ex

---------------------------------------------------------------------------
\* encryptText and decryptText on their own

\* the same identity as HomeMachine on a runtime whose setAuthTag takes full tags only
StrictMachine == [hostname |-> <<"h","1">>, username |-> <<"u","1">>, shortTags |-> FALSE]

CryptoMachines == { HomeMachine, OtherMachine, StrictMachine }

\* the plaintexts given to encryptText
Plaintexts == { <<>>, <<"a">>, serializeCredentials(R_Example) }

\* another plaintext than t
OtherText(t) == IF t = <<"a">> THEN <<"b">> ELSE <<"a">>

\* the ways a payload is changed between encryptText and decryptText
Alterations ==
    { "iv", "tag", "ct", "tag-short", "tag-cut", "iv-upper", "ct-junk", "ct-drop" }

\* the payload with one field changed: the nonce, the tag or the ciphertext
\* replaced by another one, the tag cut to its first 4 bytes or its first 2,
\* the nonce spelled in upper-case digits, characters that are no hex digits put
\* behind the ciphertext, the ciphertext field removed
Altered(payload, how, by, text) ==
    LET ivb == payload[1].bytes
        tagb == payload[3].bytes
    IN  CASE how = "iv" -> [payload EXCEPT ![1] = Hex(IvBytes(ivb.iv + 1))]
          [] how = "tag" ->
                 [payload EXCEPT ![3] = Hex(TagBytes(deriveKey(by), ivb.iv, OtherText(text), 16))]
          [] how = "ct" ->
                 [payload EXCEPT ![5] = Hex(CipherBytes(deriveKey(by), ivb.iv, OtherText(text)))]
          [] how = "tag-short" -> [payload EXCEPT ![3] = Hex([tagb EXCEPT !.len = 4])]
          [] how = "tag-cut" -> [payload EXCEPT ![3] = Hex([tagb EXCEPT !.len = 2])]
          [] how = "iv-upper" -> [payload EXCEPT ![1] = HexUpper(ivb)]
          [] how = "ct-junk" -> payload \o << Junk >>
          [] OTHER -> SubSeq(payload, 1, 3)

CryptoUnchanged == UNCHANGED <<brainRoot, brain, clock, appended, proj, last, calls>>

\* encryptText(text) on the current machine
Encrypt(text, n) ==
    /\ result' = [op |-> "encryptText", text |-> text, by |-> machine, altered |-> "none",
                  payload |-> encryptText(text, machine, n)]
    /\ UNCHANGED machine
    /\ CryptoUnchanged

\* the payload is changed in one field
Alter(how) ==
    /\ result.op = "encryptText" /\ result.altered = "none"
    /\ result' = [result EXCEPT !.altered = how,
                                !.payload = Altered(result.payload, how, result.by, result.text)]
    /\ UNCHANGED machine
    /\ CryptoUnchanged

\* the payload is taken to another machine, user or runtime
Move(m) ==
    /\ result.op = "encryptText"
    /\ m # machine
    /\ machine' = m
    /\ UNCHANGED result
    /\ CryptoUnchanged

\* decryptText(payload) on the current machine
Decrypt ==
    /\ result.op = "encryptText"
    /\ result' = [op |-> "decryptText", text |-> result.text, by |-> result.by,
                  altered |-> result.altered, payload |-> result.payload,
                  out |-> decryptText(result.payload, machine)]
    /\ UNCHANGED machine
    /\ CryptoUnchanged

InitCrypto ==
    /\ calls = <<>>
    /\ brainRoot = FALSE
    /\ brain = [n \in EntryNames |-> NoEntry]
    /\ clock = 1
    /\ appended = [n \in EntryNames |-> <<>>]
    /\ result = [op |-> "none", status |-> "ok"]
    /\ machine \in CryptoMachines
    /\ proj = NoProject
    /\ last = [proj |-> proj, fault |-> "none"]

NextCrypto ==
    \/ \E text \in Plaintexts, n \in Nonces : Encrypt(text, n)
    \/ \E how \in Alterations : Alter(how)
    \/ \E m \in CryptoMachines : Move(m)
    \/ Decrypt

SpecCrypto == InitCrypto /\ [][NextCrypto]_vars

\* hostname and user name are the same
SameIdentity(a, b) == a.hostname = b.hostname /\ a.username = b.username

\* C8: decryptText(encryptText(T)) = T under the same machine identity; a
\* payload produced under another identity, or with its nonce, tag or ciphertext
\* field altered, makes decryptText raise an error and return no plaintext.
C8_DecryptInvertsEncryptOrFails ==
    result.op = "decryptText" =>
        IF SameIdentity(result.by, machine) /\ result.altered = "none"
        THEN result.out.ok /\ result.out.text = result.text
        ELSE ~result.out.ok

---------------------------------------------------------------------------
\* The other tool calls

\* projectPath.replace(/\\/g, "/")
SlashChar(c) == IF c = "\\" THEN "/" ELSE c
ForwardSlashes(s) == [i \in 1..Len(s) |-> SlashChar(s[i])]

\* .replace(/\/$/, "")
DropTrailingSlash(s) ==
    IF s # <<>> /\ s[Len(s)] = "/" THEN SubSeq(s, 1, Len(s) - 1) ELSE s

\* normalized.split("/").pop()
LastSegment(s) ==
    LET parts == Pieces(s, { q \in 1..Len(s) : s[q] = "/" }, 1)
    IN  parts[Len(parts)]

ProjectFiles == << "task.md", "implementation_plan.md", "walkthrough.md" >>

\* matchesProject(folder, projectPath)
matchesProject(name, projectPath) ==
    LET normalized == ToLowerCase(DropTrailingSlash(ForwardSlashes(projectPath)))
        projectName == LastSegment(normalized)
    IN  \/ projectPath = <<>>
        \/ \E i \in 1..Len(ProjectFiles) :
               LET content == ToLowerCase(readFileSafe(name, ProjectFiles[i]))
               IN  Includes(content, normalized) \/ Includes(content, projectName)

\* folders.filter((f) => matchesProject(f.full, projectPath)), from the i-th on
RECURSIVE foldersOfProject(_, _, _)
foldersOfProject(folders, projectPath, i) ==
    IF i > Len(folders) THEN <<>>
    ELSE (IF matchesProject(folders[i].name, projectPath) THEN << folders[i] >> ELSE <<>>)
         \o foldersOfProject(folders, projectPath, i + 1)

\* readdirSync(BRAIN_DIR) throws in this call
ReaddirFails(fault) == brainRoot /\ fault = "readdir"

\* the variables a call that only reads leaves alone
ReadOnlyCall == UNCHANGED <<brainRoot, brain, clock, appended, proj, machine, last, calls>>

\* the recall handler
Recall(project_path, fault) ==
    LET folders == IF project_path # <<>>
                   THEN foldersOfProject(getBrainFoldersSorted, project_path, 1)
                   ELSE getBrainFoldersSorted
    IN  /\ ReadOnlyCall
        /\ result' =
             IF ReaddirFails(fault) THEN Failed("recall", "EACCES")
             ELSE IF Len(folders) = 0
             THEN [op |-> "recall", status |-> "none", project |-> project_path]
             ELSE [op |-> "recall", status |-> "ok", project |-> project_path,
                   session |-> folders[1].name, mtime |-> folders[1].mtime,
                   task |-> readFileSafe(folders[1].name, "task.md"),
                   notes |-> readFileSafe(folders[1].name, "session_notes.md")]

DefaultCount == 10
MaxCount == 20

\* the rows of the table recall_sessions prints, from the i-th folder on
RECURSIVE sessionRows(_, _)
sessionRows(folders, i) ==
    IF i > Len(folders) THEN <<>>
    ELSE << [name |-> folders[i].name, mtime |-> folders[i].mtime,
             title |-> extractTitle(folders[i].name)] >> \o sessionRows(folders, i + 1)

\* the recall_sessions handler: count is <<>> when absent, else <<n>>
RecallSessions(count, project_path, all_projects, fault) ==
    LET cnt == Min(IF count = <<>> THEN DefaultCount ELSE count[1], MaxCount)
        allFolders == IF project_path # <<>> /\ ~all_projects
                      THEN foldersOfProject(getBrainFoldersSorted, project_path, 1)
                      ELSE getBrainFoldersSorted
        folders == Slice0(allFolders, cnt)
    IN  /\ ReadOnlyCall
        /\ result' =
             IF ReaddirFails(fault) THEN Failed("recall_sessions", "EACCES")
             ELSE IF Len(folders) = 0
             THEN [op |-> "recall_sessions", status |-> "none", count |-> count,
                   project |-> IF all_projects THEN <<>> ELSE project_path]
             ELSE [op |-> "recall_sessions", status |-> "ok", count |-> count,
                   project |-> IF all_projects THEN <<>> ELSE project_path,
                   rows |-> sessionRows(folders, 1)]

\* readAllArtifacts: the files of the folder with content, "" for the others
readAllArtifacts(name) ==
    [f \in FileNames |->
        IF Trim(readFileSafe(name, f)) # <<>> THEN readFileSafe(name, f) ELSE <<>>]

\* mutant of RecallSession: the directory of an unknown session is created
RecallSession_Mkdir(session_id) ==
    LET valid == validateSessionId(session_id) = ""
        isDir == brainRoot /\ session_id \in EntryNames /\ brain[session_id].kind = "dir"
        free == session_id \in EntryNames /\ (brainRoot => brain[session_id].kind = "none")
    IN  /\ UNCHANGED <<clock, appended, proj, machine, last, calls>>
        /\ IF valid /\ free
           THEN /\ brainRoot' = TRUE
                /\ brain' = [brain EXCEPT ![session_id] =
                                 [kind |-> "dir", mtime |-> clock, files |-> NoFiles]]
           ELSE UNCHANGED <<brainRoot, brain>>
        /\ result' =
             IF ~valid THEN Failed("recall_session", validateSessionId(session_id))
             ELSE IF ~isDir
             THEN [op |-> "recall_session", status |-> "none", session |-> session_id,
                   info |-> "Session not found"]
             ELSE IF \A f \in FileNames : readAllArtifacts(session_id)[f] = <<>>
             THEN [op |-> "recall_session", status |-> "none", session |-> session_id,
                   info |-> "No artifacts in session"]
             ELSE [op |-> "recall_session", status |-> "ok", session |-> session_id,
                   artifacts |-> readAllArtifacts(session_id)]

\* mutant of RecallSession: an unknown session is an error
RecallSession_Throws(session_id) ==
    /\ ReadOnlyCall
    /\ result' =
         IF validateSessionId(session_id) # ""
         THEN Failed("recall_session", validateSessionId(session_id))
         ELSE IF ~(brainRoot /\ session_id \in EntryNames /\ brain[session_id].kind = "dir")
         THEN Failed("recall_session", "Session not found")
         ELSE IF \A f \in FileNames : readAllArtifacts(session_id)[f] = <<>>
         THEN [op |-> "recall_session", status |-> "none", session |-> session_id,
               info |-> "No artifacts in session"]
         ELSE [op |-> "recall_session", status |-> "ok", session |-> session_id,
               artifacts |-> readAllArtifacts(session_id)]

\* the recall_session handler
RecallSession(session_id) ==
    /\ ReadOnlyCall
    /\ result' =
         IF validateSessionId(session_id) # ""
         THEN Failed("recall_session", validateSessionId(session_id))
         ELSE IF ~(brainRoot /\ session_id \in EntryNames /\ brain[session_id].kind = "dir")
         THEN [op |-> "recall_session", status |-> "none", session |-> session_id,
               info |-> "Session not found"]
         ELSE IF \A f \in FileNames : readAllArtifacts(session_id)[f] = <<>>
         THEN [op |-> "recall_session", status |-> "none", session |-> session_id,
               info |-> "No artifacts in session"]
         ELSE [op |-> "recall_session", status |-> "ok", session |-> session_id,
               artifacts |-> readAllArtifacts(session_id)]

\* the entries of CODE_TRACKER_DIR and the number of directories in KNOWLEDGE_DIR;
\* the server only reads them
CodeTracker ==
    << [name |-> <<"a","p","p","_","9","f">>, kind |-> "dir", file_count |-> 2],
       [name |-> <<"l","o","g">>, kind |-> "file", file_count |-> 0],
       [name |-> <<"d","b">>, kind |-> "dir", file_count |-> 0] >>
KnowledgeItems == 1

\* d.split("_")[0]
FirstPart(d) ==
    LET parts == Pieces(d, { q \in 1..Len(d) : d[q] = "_" }, 1) IN parts[1]

\* listKnownProjects: the directories of the tracker, from the i-th entry on
RECURSIVE knownProjectsFrom(_)
knownProjectsFrom(i) ==
    IF i > Len(CodeTracker) THEN <<>>
    ELSE (IF CodeTracker[i].kind = "dir"
          THEN << [project |-> FirstPart(CodeTracker[i].name),
                   tracker_key |-> CodeTracker[i].name,
                   file_count |-> CodeTracker[i].file_count] >>
          ELSE <<>>) \o knownProjectsFrom(i + 1)

\* listKnownProjects: [] when the tracker is missing or cannot be read
listKnownProjects(trackerExists, fault) ==
    IF ~trackerExists \/ fault = "readdir" THEN <<>> ELSE knownProjectsFrom(1)

\* the list_projects handler
ListProjects(trackerExists, fault) ==
    /\ ReadOnlyCall
    /\ result' = [op |-> "list_projects",
                  status |-> IF listKnownProjects(trackerExists, fault) = <<>>
                             THEN "none" ELSE "ok",
                  projects |-> listKnownProjects(trackerExists, fault)]

\* the save_context_file handler
SaveContextFile(path, context_text, fault) ==
    /\ UNCHANGED <<brainRoot, brain, clock, appended, machine, last, calls>>
    /\ IF validatePath(path) # ""
       THEN /\ result' = Failed("save_context_file", validatePath(path))
            /\ UNCHANGED proj
       ELSE IF context_text = <<>>
       THEN /\ result' = Failed("save_context_file",
                                "context_text is required and must be a string")
            /\ UNCHANGED proj
       ELSE IF fault = "write"
       THEN /\ result' = Failed("save_context_file", "EACCES")
            /\ UNCHANGED proj
       ELSE /\ result' = [op |-> "save_context_file", status |-> "ok", path |-> path]
            /\ proj' = [proj EXCEPT !.context = FileOf(context_text)]

\* the directories of BRAIN_DIR other than tempmediaStorage
AllDirs == { n \in EntryNames : brainRoot /\ IsSessionDir(n) }

\* content.split(/^---$/m).filter((e) => e.trim() && !e.trim().startsWith("# Session Notes"))
countedNotes(content) ==
    LET parts == SplitRule(content)
    IN  Cardinality({ i \in 1..Len(parts) :
            Trim(parts[i]) # <<>> /\ ~StartsWith(Trim(parts[i]), T_SessionNotes) })

RECURSIVE notesFilesFrom(_, _)
notesFilesFrom(folders, i) ==
    IF i > Len(folders) THEN 0
    ELSE (IF Trim(readFileSafe(folders[i].name, "session_notes.md")) # <<>> THEN 1 ELSE 0)
         + notesFilesFrom(folders, i + 1)

RECURSIVE totalNotesFrom(_, _)
totalNotesFrom(folders, i) ==
    IF i > Len(folders) THEN 0
    ELSE (IF Trim(readFileSafe(folders[i].name, "session_notes.md")) # <<>>
          THEN countedNotes(readFileSafe(folders[i].name, "session_notes.md")) ELSE 0)
         + totalNotesFrom(folders, i + 1)

\* the sizes of the files of the directories in allDirs, from the i-th entry of
\* BRAIN_DIR and the k-th file on
RECURSIVE totalBytesFrom(_, _)
totalBytesFrom(i, k) ==
    IF i > Len(DirOrder) THEN 0
    ELSE IF k > Len(AllFiles) THEN totalBytesFrom(i + 1, 1)
    ELSE (IF DirOrder[i] \in AllDirs /\ brain[DirOrder[i]].files[AllFiles[k]].ex
          THEN Len(brain[DirOrder[i]].files[AllFiles[k]].txt) ELSE 0)
         + totalBytesFrom(i, k + 1)

\* String(n) for a natural number n
RECURSIVE DecimalText(_)
DecimalText(n) == IF n < 10 THEN << Digit(n) >> ELSE DecimalText(n \div 10) \o << Digit(n % 10) >>

\* (totalBytes / 1024 / 1024).toFixed(1)
Fixed1(totalBytes) ==
    LET tenths == (totalBytes * 10 + 524288) \div 1048576
    IN  DecimalText(tenths \div 10) \o <<".">> \o << Digit(tenths % 10) >>

\* getContextStatus: a failing readdirSync(BRAIN_DIR) leaves the defaults
getContextStatus(fault) ==
    IF ~brainRoot \/ fault = "readdir"
    THEN [brainExists |-> brainRoot, totalSessions |-> 0, sessionsWithArtifacts |-> 0,
          notesFiles |-> 0, totalNotes |-> 0, totalBytes |-> 0,
          knowledgeItems |-> KnowledgeItems, diskUsageMB |-> <<"0">>]
    ELSE [brainExists |-> TRUE, totalSessions |-> Cardinality(AllDirs),
          sessionsWithArtifacts |-> Len(getBrainFoldersSorted),
          notesFiles |-> notesFilesFrom(getBrainFoldersSorted, 1),
          totalNotes |-> totalNotesFrom(getBrainFoldersSorted, 1),
          totalBytes |-> totalBytesFrom(1, 1),
          knowledgeItems |-> KnowledgeItems,
          diskUsageMB |-> Fixed1(totalBytesFrom(1, 1))]

\* the context_status handler
ContextStatus(fault) ==
    /\ ReadOnlyCall
    /\ result' = [op |-> "context_status", status |-> "ok", stats |-> getContextStatus(fault)]

\* a tool name the handler does not know
UnknownTool(name) ==
    /\ ReadOnlyCall
    /\ result' = [op |-> name, status |-> "failed", error |-> "Unknown tool"]

---------------------------------------------------------------------------
\* The server with all its tools

P_Db == <<"/","w","\\","D","b","/">>
P_None == <<"/","w","/","z","z">>
S_Unknown == <<"e","e">>
ContextText == <<"c","t","x">>

RecallCalls ==
    { [project_path |-> <<>>, fault |-> "none"], [project_path |-> P_Db, fault |-> "none"],
      [project_path |-> P_None, fault |-> "none"], [project_path |-> <<>>, fault |-> "readdir"] }

RecallSessionsCalls ==
    { [count |-> c, project_path |-> <<>>, all_projects |-> FALSE, fault |-> "none"] :
          c \in { <<>>, <<-1>>, <<0>>, <<1>>, <<25>> } }
    \cup { [count |-> <<>>, project_path |-> P_Db, all_projects |-> a, fault |-> "none"] :
               a \in BOOLEAN }
    \cup { [count |-> <<>>, project_path |-> <<>>, all_projects |-> FALSE, fault |-> "readdir"] }

RecallSessionArgs == { A1, C3, F0, <<>>, DotDot, S_Unknown }

ServerRecallNotesArgs ==
    RecallNotesArgs
    \cup { [query |-> <<>>, tag |-> <<>>, last_n |-> n] : n \in { <<-1>>, <<0>>, <<25>> } }

ServerSaveNoteArgs ==
    { a \in SaveNoteArgs : a.note # N_Ruled /\ a.session_id # C3 }

ServerGetCredentialsCalls ==
    { [path |-> p, n |-> 1, fault |-> "none"] : p \in PathArgs }

ServerSaveCredentialsCalls ==
    { [path |-> P_Proj, credentials |-> [given |-> FALSE, value |-> <<>>], n |-> 1,
        fault |-> "none"] }
    \cup { [path |-> p, credentials |-> [given |-> TRUE, value |-> R_Example],
            n |-> 1, fault |-> "none"] : p \in PathArgs \ {P_Proj} }

SaveContextFileCalls ==
    { [path |-> P_Proj, context_text |-> t, fault |-> "none"] : t \in { ContextText, <<>> } }
    \cup { [path |-> P_Proj, context_text |-> ContextText, fault |-> "write"] }
    \cup { [path |-> p, context_text |-> ContextText, fault |-> "none"] :
               p \in PathArgs \ {P_Proj} }

\* the artifacts of a1 and b2 at the start: two listed sessions, or none
ServerProfiles == { <<Prof_Plan, Prof_Task>>, <<Prof_Blank, NoFiles>> }

\* BRAIN_DIR with the artifacts p[1] in a1 (the older directory) and p[2] in b2
BrainOf(p) ==
    [n \in EntryNames |->
        CASE n = A1 -> [kind |-> "dir", mtime |-> 0, files |-> p[1]]
          [] n = B2 -> [kind |-> "dir", mtime |-> 1, files |-> p[2]]
          [] n = F0 -> [kind |-> "file", mtime |-> 1, files |-> NoFiles]
          [] n = TempMediaStorage -> [kind |-> "dir", mtime |-> 1, files |-> Prof_Task]
          [] OTHER -> NoEntry]

\* the session store starts without its root, with two listed sessions or with
\* none; the project starts with a legacy credentials file or, in the first
\* case, also without one
InitServer ==
    /\ calls = <<>>
    /\ \/ brainRoot = FALSE /\ brain = [n \in EntryNames |-> NoEntry]
       \/ brainRoot = TRUE /\ \E p \in ServerProfiles : brain = BrainOf(p)
    /\ clock = 1
    /\ result = [op |-> "none", status |-> "ok"]
    /\ appended = [n \in EntryNames |-> <<>>]
    /\ machine = HomeMachine
    /\ \E f \in IF brainRoot THEN { FileOf(LegacyText) } ELSE { NoFile, FileOf(LegacyText) } :
           proj = [ex |-> TRUE, plain |-> f, enc |-> NoFile, gitignore |-> NoFile,
                   context |-> NoFile]
    /\ last = [proj |-> proj, fault |-> "none"]

NextServer ==
    \/ \E c \in RecallCalls : Recall(c.project_path, c.fault)
    \/ \E c \in RecallSessionsCalls :
           RecallSessions(c.count, c.project_path, c.all_projects, c.fault)
    \/ \E id \in RecallSessionArgs : RecallSession(id)
    \/ \E e \in BOOLEAN, f \in {"none", "readdir"} : ListProjects(e, f)
    \/ \E c \in ServerGetCredentialsCalls : GetCredentials(c.path, c.n, c.fault)
    \/ \E c \in ServerSaveCredentialsCalls :
           SaveCredentials(c.path, c.credentials, c.n, c.fault)
    \/ \E c \in SaveContextFileCalls : SaveContextFile(c.path, c.context_text, c.fault)
    \/ \E a \in ServerSaveNoteArgs : SaveNote(a.note, a.tag, a.session_id, clock + 1)
    \/ \E a \in ServerRecallNotesArgs : RecallNotes(a.query, a.tag, a.last_n)
    \/ \E f \in {"none", "readdir"} : ContextStatus(f)
    \/ UnknownTool("export")

SpecServer == InitServer /\ [][NextServer]_vars

---------------------------------------------------------------------------
\* Properties of the server as a whole

\* the results that are a text for the caller
TextStatuses == { "ok", "none", "found", "failed" }

\* the error of a failed result carries a message
HasMessage(r) ==
    IF r.op \in { "get_credentials", "save_credentials" }
    THEN r.error.reason # "" ELSE r.error # ""

\* C11: for every tool name and every argument record, absent arguments and
\* failing storage calls included, the CallTool handler returns a text result;
\* an error raised inside an operation comes back as an error message.
C11_EveryCallReturnsText ==
    result.op # "none" =>
        /\ result.status \in TextStatuses
        /\ result.status = "failed" => HasMessage(result)

\* C11 witness: a storage call failed inside recall and the caller got the message
C11_Witness ==
    result.op = "recall" /\ result.status = "failed" /\ result.error = "EACCES"

\* every file and directory the server can reach is as before the step
FilesUnchanged == UNCHANGED <<brainRoot, brain, proj>>

\* a step of a call whose project path is missing, relative or names nothing,
\* whose session_id is malformed, or whose required argument is missing
RejectedCall ==
    \/ \E p \in PathArgs \ {P_Proj} :
           \/ GetCredentials(p, 1, "none")
           \/ SaveCredentials(p, [given |-> TRUE, value |-> R_Example], 1, "none")
           \/ SaveContextFile(p, ContextText, "none")
    \/ SaveCredentials(P_Proj, [given |-> FALSE, value |-> <<>>], 1, "none")
    \/ SaveContextFile(P_Proj, <<>>, "none")
    \/ \E a \in ServerSaveNoteArgs :
           /\ a.note = <<>> \/ (a.session_id # <<>> /\ validateSessionId(a.session_id) # "")
           /\ SaveNote(a.note, a.tag, a.session_id, clock + 1)
    \/ \E id \in RecallSessionArgs :
           validateSessionId(id) # "" /\ RecallSession(id)

\* C12: a call of get_credentials, save_credentials, save_context_file, save_note
\* or recall_session with an invalid project path, a malformed session_id or a
\* missing required argument returns an error result and no file or directory is
\* created, modified or deleted.
C12_RejectedCallTouchesNothing ==
    [][ RejectedCall => (result'.status = "failed" /\ FilesUnchanged) ]_vars

\* C12 witness: save_note was refused for its session_id in a state where the
\* session root did not exist yet
C12_Witness ==
    /\ result.op = "save_note" /\ result.status = "failed"
    /\ result.error = "Invalid session_id format"
    /\ ~brainRoot

\* the name is no directory of BRAIN_DIR (and no file either)
NamesNothing(id) == ~(brainRoot /\ id \in EntryNames /\ brain[id].kind # "none")

\* a step of a reading call, made without a storage fault, that finds nothing:
\* no session is listed, the session ID names no directory, or the project has
\* no credential file
ReadFindsNothing ==
    \/ /\ getBrainFoldersSorted = <<>>
       /\ \/ \E c \in RecallCalls : c.fault = "none" /\ Recall(c.project_path, c.fault)
          \/ \E c \in RecallSessionsCalls :
                 /\ c.fault = "none"
                 /\ RecallSessions(c.count, c.project_path, c.all_projects, c.fault)
          \/ \E a \in ServerRecallNotesArgs : RecallNotes(a.query, a.tag, a.last_n)
    \/ \E id \in RecallSessionArgs :
           validateSessionId(id) = "" /\ NamesNothing(id) /\ RecallSession(id)
    \/ ~proj.plain.ex /\ ~proj.enc.ex /\ GetCredentials(P_Proj, 1, "none")

\* a step of save_note, with a note, for a session ID that names no directory
NoteForUnknownSession ==
    \E a \in ServerSaveNoteArgs :
        /\ a.note # <<>> /\ a.session_id # <<>>
        /\ validateSessionId(a.session_id) = "" /\ NamesNothing(a.session_id)
        /\ SaveNote(a.note, a.tag, a.session_id, clock + 1)

\* a step of save_note, with a note and no session ID, when no session is listed
NoteWithoutSession ==
    \E a \in ServerSaveNoteArgs :
        /\ a.note # <<>> /\ a.session_id = <<>>
        /\ getBrainFoldersSorted = <<>>
        /\ SaveNote(a.note, a.tag, a.session_id, clock + 1)

\* C13 as stated: for every operation, no listed sessions, an unknown session ID
\* or a missing credential file gives an informational result, not an error.
C13_NotFoundIsNeverAnError ==
    [][ (ReadFindsNothing \/ NoteForUnknownSession \/ NoteWithoutSession)
            => result'.status # "failed" ]_vars

\* C13 amended: the reading operations answer a not-found condition with an
\* informational result and save_note creates the directory of an unknown
\* session ID; save_note without a session ID reports an error when no session
\* is listed, and writes nothing.
C13_NotFoundInformational ==
    [][ /\ ReadFindsNothing => result'.status = "none"
        /\ NoteForUnknownSession => result'.status = "ok"
        /\ NoteWithoutSession =>
               /\ result' = Failed("save_note", "No sessions found to save note to")
               /\ FilesUnchanged ]_vars

\* C13 witness: recall_session was asked for a session that does not exist
\* under an existing session root
C13_Witness ==
    /\ result.op = "recall_session" /\ result.status = "none"
    /\ result.info = "Session not found"
    /\ brainRoot

\* session_notes.md of a session directory
JournalExists(n) ==
    brainRoot /\ brain[n].kind = "dir" /\ brain[n].files["session_notes.md"].ex
Journal(n) == IF JournalExists(n) THEN brain[n].files["session_notes.md"].txt ELSE <<>>

IsPrefix(a, b) == Len(a) <= Len(b) /\ SubSeq(b, 1, Len(a)) = a

\* the entry block of the note last appended to the session
LastBlock(n) ==
    LET r == appended[n][Len(appended[n])] IN EntryBlock(r.now, r.note, r.tag)

\* C17: across every operation the content of a session's session_notes.md
\* before the operation is a prefix of its content after it; append-note on a
\* missing journal creates it as the document header followed by the first
\* entry, and otherwise adds the entry block at the end.
C17_JournalAppendOnly ==
    [][ \A n \in EntryNames :
          /\ JournalExists(n) => (JournalExists(n)' /\ IsPrefix(Journal(n), Journal(n)'))
          /\ (JournalExists(n)' /\ Journal(n)' # Journal(n)) =>
                 /\ Len(appended'[n]) = Len(appended[n]) + 1
                 /\ Journal(n)' =
                        IF JournalExists(n) THEN Journal(n) \o LastBlock(n)'
                        ELSE T_SessionNotes \o <<"\n","\n">> \o LastBlock(n)' ]_vars

\* C17 witness: a journal holds two entries, the second added to the first
C17_Witness ==
    \E n \in EntryNames :
        /\ Len(appended[n]) = 2
        /\ JournalExists(n)
        /\ StartsWith(Journal(n), T_SessionNotes)
        /\ Len(journalEntries(Journal(n))) = 2

\* the sessions of the list that pass the project filter
PassingNames(project) == { n \in ListedNames : matchesProject(n, project) }

\* C18: getBrainFoldersSorted returns the qualifying sessions newest first, the
\* empty list when the session root does not exist, and recall reports the
\* qualifying session with the greatest modification time among those passing
\* the project filter.
C18_NewestFirst ==
    /\ \A i \in 1..(Len(getBrainFoldersSorted) - 1) :
           getBrainFoldersSorted[i].mtime >= getBrainFoldersSorted[i + 1].mtime
    /\ \A n \in EntryNames :
           (n \in ListedNames) <=> (Qualifies(n) /\ n # TempMediaStorage)
    /\ Len(getBrainFoldersSorted) = Cardinality(ListedNames)
    /\ ~brainRoot => getBrainFoldersSorted = <<>>
    /\ (result.op = "recall" /\ result.status # "failed") =>
           /\ (result.status = "none") <=> (PassingNames(result.project) = {})
           /\ result.status = "ok" =>
                  /\ result.session \in PassingNames(result.project)
                  /\ result.mtime = brain[result.session].mtime
                  /\ \A n \in PassingNames(result.project) : brain[n].mtime <= result.mtime

\* C18 witness: recall with a project filter reported the older session because
\* the newest listed one does not mention the project
C18_Witness ==
    /\ result.op = "recall" /\ result.status = "ok" /\ result.project = P_Db
    /\ \E n \in ListedNames : brain[n].mtime > result.mtime

\* the number of sessions an argument allows: arg is <<>> when absent
Window(arg, default) ==
    LET n == Min(IF arg = <<>> THEN default ELSE arg[1], 20)
    IN  IF n < 0 THEN 0 ELSE n

\* the names of the k most recent listed sessions
TopNames(k) ==
    { getBrainFoldersSorted[i].name : i \in 1..Min(k, Len(getBrainFoldersSorted)) }

\* C19: for every count and last_n, zero, negative and above 20 included,
\* recall_sessions lists at most min(count, 20) sessions and recall_notes scans
\* only the min(last_n, 20) most recent listed sessions; absent, they are 10 and 5.
C19_WindowIsCapped ==
    [][ /\ \A c \in RecallSessionsCalls :
               (RecallSessions(c.count, c.project_path, c.all_projects, c.fault)
                    /\ result'.status = "ok")
                   => Len(result'.rows) <= Window(c.count, 10)
        /\ \A a \in ServerRecallNotesArgs :
               RecallNotes(a.query, a.tag, a.last_n)
                   => \A i \in 1..Len(result'.results) :
                          result'.results[i].sessionId \in TopNames(Window(a.last_n, 5)) ]_vars

\* the operations that are no explicit write
ReadOps ==
    { "recall", "recall_sessions", "recall_session", "list_projects", "get_credentials",
      "recall_notes", "context_status" }

MigrationOnly ==
    /\ LegacyOnlyNonBlank(proj)
    /\ proj'.ex = proj.ex /\ proj'.context = proj.context
    /\ proj'.plain = proj.plain \/ ~proj'.plain.ex
    /\ proj'.gitignore.ex = proj.gitignore.ex
    /\ IsPrefix(proj.gitignore.txt, proj'.gitignore.txt)

---------------------------------------------------------------------------
\* The length of the text of a result, in UTF-16 code units as String.length
\* counts them; every character of the stored texts is one unit

MAX_RESPONSE_CHARS == 50000

\* path.join(os.homedir(), ".gemini", "antigravity", "brain") for the home /h
BRAIN_DIR ==
    <<"/","h","/",".","g","e","m","i","n","i","/","a","n","t","i","g","r","a","v","i","t","y",
      "/","b","r","a","i","n">>

\* n.toLocaleString().length: the digits and a comma before every group of three
LocaleLength(n) == Len(DecimalText(n)) + (Len(DecimalText(n)) - 1) \div 3

\* truncateResponse on a text of the given length: the characters of the text
\* that are kept and the length of the marker that follows them
truncateResponse(length) ==
    IF length <= MAX_RESPONSE_CHARS
    THEN [content |-> length, marker |-> 0]
    ELSE [content |-> MAX_RESPONSE_CHARS,
          marker |-> 47 + LocaleLength(length) + LocaleLength(MAX_RESPONSE_CHARS)]

\* a text the handler returns as it built it
Untruncated(length) == [content |-> length, marker |-> 0]

\* the rows recall_sessions prints, from the i-th on
RECURSIVE sessionRowsLength(_, _)
sessionRowsLength(rows, i) ==
    IF i > Len(rows) THEN 0
    ELSE 16 + Len(DecimalText(i)) + 10 + Len(rows[i].title) + Len(rows[i].name)
         + sessionRowsLength(rows, i + 1)

\* the sections recall_session prints
artifactsLength(artifacts) ==
    (IF artifacts["task.md"] # <<>> THEN 11 + Len(artifacts["task.md"]) ELSE 0)
    + (IF artifacts["session_notes.md"] # <<>>
       THEN 11 + Len(artifacts["session_notes.md"]) ELSE 0)
    + (IF artifacts["walkthrough.md"] # <<>>
       THEN 17 + Len(artifacts["walkthrough.md"]) ELSE 0)
    + (IF artifacts["implementation_plan.md"] # <<>>
       THEN 25 + Len(artifacts["implementation_plan.md"]) ELSE 0)

\* the notes recall_notes prints, from the i-th on
RECURSIVE notesLength(_, _)
notesLength(results, i) ==
    IF i > Len(results) THEN 0
    ELSE 20 + Len(results[i].title) + 10 + Len(results[i].sessionId)
         + Len(results[i].entry) + 7 + notesLength(results, i + 1)

\* the "- **key**: value" lines of a section, from the i-th pair on
RECURSIVE pairsLength(_, _)
pairsLength(pairs, i) ==
    IF i > Len(pairs) THEN 0
    ELSE 9 + Len(pairs[i].key) + Len(pairs[i].value) + pairsLength(pairs, i + 1)

\* the sections get_credentials prints, from the i-th on
RECURSIVE credentialsLength(_, _)
credentialsLength(creds, i) ==
    IF i > Len(creds) THEN 0
    ELSE 4 + Len(creds[i].section) + pairsLength(creds[i].pairs, 1) + 1
         + credentialsLength(creds, i + 1)

\* the lines list_projects prints, joined by "\n", from the i-th on
RECURSIVE projectsLength(_, _)
projectsLength(projects, i) ==
    IF i > Len(projects) THEN 0
    ELSE 23 + Len(projects[i].project) + Len(DecimalText(projects[i].file_count))
         + (IF i < Len(projects) THEN 1 ELSE 0) + projectsLength(projects, i + 1)

\* the table context_status prints
statusLength(s) ==
    357 + 5 + Len(BRAIN_DIR) + 1 + Len(DecimalText(s.totalSessions))
    + Len(DecimalText(s.sessionsWithArtifacts)) + Len(DecimalText(s.notesFiles))
    + Len(DecimalText(s.totalNotes)) + Len(DecimalText(s.knowledgeItems))
    + Len(s.diskUsageMB) + LocaleLength(MAX_RESPONSE_CHARS)

\* the results whose text the handlers build from the stored content
RenderedStatuses == { "ok", "found", "none" }

\* the text a read handler returns for the result r, as the handler builds it:
\* recall, recall_session and recall_notes pass their text to truncateResponse,
\* the other handlers return theirs as it is
responseOf(r) ==
    CASE r.op = "recall" /\ r.status = "ok" ->
           truncateResponse(28 + 10 + Len(r.session)
                            + (IF r.task # <<>> THEN Len(r.task) ELSE 62)
                            + (IF Trim(r.notes) # <<>> THEN 11 + Len(r.notes) ELSE 0)
                            + 51 + Len(r.session))
      [] r.op = "recall" /\ r.status = "none" ->
           Untruncated(IF r.project # <<>> THEN 38 + Len(r.project) ELSE 25)
      [] r.op = "recall_sessions" /\ r.status = "ok" ->
           Untruncated(72 + sessionRowsLength(r.rows, 1) + 69)
      [] r.op = "recall_sessions" /\ r.status = "none" -> Untruncated(33)
      [] r.op = "recall_session" /\ r.status = "ok" ->
           truncateResponse(13 + Len(r.session) + artifactsLength(r.artifacts))
      [] r.op = "recall_session" /\ r.status = "none" ->
           Untruncated((IF r.info = "Session not found" THEN 19 ELSE 25) + Len(r.session))
      [] r.op = "recall_notes" /\ r.status = "found" ->
           truncateResponse(18 + Len(DecimalText(Len(r.results)))
                            + notesLength(r.results, 1))
      [] r.op = "recall_notes" /\ r.status = "none" ->
           Untruncated(18 + (IF r.query # <<>> THEN 10 + Len(r.query) ELSE 0))
      [] r.op = "get_credentials" /\ r.status = "ok" ->
           Untruncated(30 + credentialsLength(r.creds, 1))
      [] r.op = "get_credentials" /\ r.status = "none" -> Untruncated(27 + Len(r.path))
      [] r.op = "list_projects" /\ r.status = "ok" ->
           Untruncated(18 + projectsLength(r.projects, 1))
      [] r.op = "list_projects" /\ r.status = "none" -> Untruncated(18 + 12)
      [] r.op = "context_status" /\ r.status = "ok" -> Untruncated(statusLength(r.stats))

---------------------------------------------------------------------------
\* The server with contents larger than a response

\* n times the character x
RECURSIVE Repeat(_)
Repeat(n) ==
    IF n = 0 THEN <<>>
    ELSE IF n % 2 = 0 THEN Repeat(n \div 2) \o Repeat(n \div 2)
    ELSE <<"x">> \o Repeat(n - 1)

\* a task.md whose heading line has a third of MAX_RESPONSE_CHARS characters
\* after "# "
LongTask == <<"#"," ">> \o Repeat(MAX_RESPONSE_CHARS \div 3) \o <<"\n","o","k">>

\* BRAIN_DIR with three listed sessions: b2 and c3 hold the long task.md, and
\* a1 holds it too or the usual one
LongBrain(first) ==
    [n \in EntryNames |->
        CASE n = A1 -> [kind |-> "dir", mtime |-> 0,
                        files |-> FilesOf(FileOf(first), NoFile, NoFile)]
          [] n = B2 -> [kind |-> "dir", mtime |-> 1,
                        files |-> FilesOf(FileOf(LongTask), NoFile, NoFile)]
          [] n = C3 -> [kind |-> "dir", mtime |-> 2,
                        files |-> FilesOf(FileOf(LongTask), NoFile, NoFile)]
          [] n = F0 -> [kind |-> "file", mtime |-> 1, files |-> NoFiles]
          [] OTHER -> NoEntry]

InitResponse ==
    /\ calls = <<>>
    /\ brainRoot = TRUE
    /\ \E first \in { TaskText, LongTask } : brain = LongBrain(first)
    /\ clock = 3
    /\ result = [op |-> "none", status |-> "ok"]
    /\ appended = [n \in EntryNames |-> <<>>]
    /\ machine = HomeMachine
    /\ proj = [ex |-> TRUE, plain |-> FileOf(LegacyText), enc |-> NoFile,
               gitignore |-> NoFile, context |-> NoFile]
    /\ last = [proj |-> proj, fault |-> "none"]

NextResponse ==
    \/ Recall(<<>>, "none")
    \/ \E c \in { <<>>, <<1>> } : RecallSessions(c, <<>>, FALSE, "none")
    \/ \E id \in { A1, B2, C3 } : RecallSession(id)
    \/ \E e \in BOOLEAN : ListProjects(e, "none")
    \/ \E p \in { P_Proj } : GetCredentials(p, 1, "none")
    \/ \E r \in { R_Example, R_Two } :
           SaveCredentials(P_Proj, [given |-> TRUE, value |-> r], 1, "none")
    \/ \E id \in { A1, B2 } : SaveNote(N_FixDb, Tag_Todo, id, clock + 1)
    \/ \E q \in { <<>>, Q_Fix, P_Db } : RecallNotes(q, <<>>, <<>>)
    \/ ContextStatus("none")

SpecResponse == InitResponse /\ [][NextResponse]_vars

\* C14: every text result returned by a read operation (recall,
\* recall_sessions, recall_session, recall_notes, get_credentials,
\* list_projects, context_status) holds at most MAX_RESPONSE_CHARS characters
\* of content, followed by the truncation marker when the text was cut.
C14_ResponseWithinCeiling ==
    (result.op \in ReadOps /\ result.status \in RenderedStatuses) =>
        responseOf(result).content <= MAX_RESPONSE_CHARS

---------------------------------------------------------------------------
\* The additions of v5.0.0: backups of the journal, export and import of the
\* memory. A session directory of this server has a .backups folder, the field
\* backups of its entry: the set of the snapshots in it, each with the time in
\* its name and its text.

RetentionDays == 30
RetentionMinutes == RetentionDays * 24 * 60

TwoDigits(n) == << Digit(n \div 10), Digit(n % 10) >>

\* new Date().toISOString().replace("T", " ").slice(0, 16), t minutes after
\* 2026-02-19 10:00 and before the end of March
IsoMinute(t) ==
    LET m == 600 + t
        day == 19 + m \div 1440
    IN  <<"2","0","2","6","-","0">>
            \o (IF day <= 28 THEN <<"2","-">> \o TwoDigits(day)
                ELSE <<"3","-">> \o TwoDigits(day - 28))
            \o <<" ">> \o TwoDigits((m % 1440) \div 60) \o <<":">> \o TwoDigits(m % 60)

NoEntryV5 == [kind |-> "none", mtime |-> 0, files |-> NoFiles, backups |-> {}]

\* mutant of snapshot: nothing is copied
snapshot_NoCopy(backups, journal, time) ==
    { b \in backups : b.time >= time - RetentionMinutes }

\* BackupManager: the .backups folder after the journal was copied into it under
\* the name of the time and the snapshots older than the window were pruned
snapshot(backups, journal, time) ==
    LET copied == { b \in backups : b.time # time }
                      \cup { [time |-> time, txt |-> journal.txt] }
    IN  { b \in copied : b.time >= time - RetentionMinutes }

\* a mutating write of the journal of a directory entry at the given time: the
\* current file, when there is one, is copied before the new content replaces it
writeJournal(entry, file, time) ==
    LET journal == entry.files["session_notes.md"]
    IN  [kind |-> "dir",
         mtime |-> IF journal.ex /\ entry.backups # {} THEN entry.mtime ELSE time,
         files |-> [entry.files EXCEPT !["session_notes.md"] = file],
         backups |-> IF journal.ex THEN snapshot(entry.backups, journal, time)
                     ELSE entry.backups]

\* append-note: save_note with the snapshot before the write
SaveNoteV5(note, tag, sid, time) ==
    LET t == saveNoteTarget(note, sid)
        now == IsoMinute(time)
    IN  /\ NotesAppended < MaxNotes
        /\ UNCHANGED <<proj, machine, last, calls>>
        /\ IF t.err # ""
           THEN /\ result' = Failed("save_note", t.err)
                /\ UNCHANGED <<brainRoot, brain, appended, clock>>
           ELSE IF brainRoot /\ brain[t.name].kind = "file"
           THEN /\ result' = Failed("save_note", "ENOTDIR")
                /\ clock' = time
                /\ UNCHANGED <<brainRoot, brain, appended>>
           ELSE LET isDir == brainRoot /\ brain[t.name].kind = "dir"
                    old == IF isDir THEN brain[t.name]
                           ELSE [NoEntryV5 EXCEPT !.kind = "dir", !.mtime = time]
                    journal == old.files["session_notes.md"]
                IN  /\ clock' = time
                    /\ brainRoot' = TRUE
                    /\ brain' = [brain EXCEPT ![t.name] =
                           writeJournal(old, appendNote(journal, now, note, tag), time)]
                    /\ appended' = [appended EXCEPT ![t.name] =
                           Append(@, [now |-> now, note |-> note, tag |-> tag])]
                    /\ result' = [op |-> "save_note", status |-> "ok",
                                  session |-> t.name, tag |-> tag]

\* the text of s before and after the first occurrence of sub
Before(s, sub) == IF IndexOf(s, sub) < 0 THEN s ELSE SubSeq(s, 1, IndexOf(s, sub))
After(s, sub) ==
    IF IndexOf(s, sub) < 0 THEN <<>>
    ELSE SubSeq(s, IndexOf(s, sub) + Len(sub) + 1, Len(s))

T_EntryMark == <<"#","#","#"," ","[">>

\* the entry of a fragment of the journal: the timestamp and the tag of its
\* header line and the body below it
parseEntry(fragment) ==
    LET headLine == Before(fragment, <<"\n">>)
        close == IndexOf(headLine, <<"]">>)
        rest == SubSeq(headLine, close + 2, Len(headLine))
    IN  IF ~StartsWith(fragment, T_EntryMark) \/ close < 0
        THEN [timestamp |-> <<>>, tag |-> <<>>, body |-> fragment]
        ELSE [timestamp |-> SubSeq(headLine, Len(T_EntryMark) + 1, close),
              tag |-> IF StartsWith(rest, <<" ","#">>) THEN SubSeq(rest, 3, Len(rest))
                      ELSE <<>>,
              body |-> Trim(After(fragment, <<"\n">>))]

\* the leading fragment without the document header
withoutHeader(fragment) ==
    IF StartsWith(fragment, T_SessionNotes)
    THEN Trim(SubSeq(fragment, Len(T_SessionNotes) + 1, Len(fragment)))
    ELSE fragment

\* the entries of the fragments of a journal, from the i-th on
RECURSIVE entriesFrom(_, _)
entriesFrom(fragments, i) ==
    IF i > Len(fragments) THEN <<>>
    ELSE LET f == IF i = 1 THEN withoutHeader(fragments[i]) ELSE fragments[i]
         IN  (IF f # <<>> THEN << parseEntry(f) >> ELSE <<>>)
             \o entriesFrom(fragments, i + 1)

\* the entries of a journal file: the journal is split on the delimiter line
\* and the document header is discarded
noteEntries(file) == IF file.ex THEN entriesFrom(journalEntries(file.txt), 1) ELSE <<>>

\* an entry with the timestamp and the body of e is in the journal
hasEntry(file, e) ==
    LET entries == noteEntries(file)
    IN  \E k \in 1..Len(entries) :
            entries[k].timestamp = e.timestamp /\ entries[k].body = e.body

\* mutant of mergeEntries: every incoming entry is appended
RECURSIVE mergeEntries_AppendAll(_, _, _)
mergeEntries_AppendAll(file, incoming, i) ==
    IF i > Len(incoming) THEN file
    ELSE mergeEntries_AppendAll(
             appendNote(file, incoming[i].timestamp, incoming[i].body, incoming[i].tag),
             incoming, i + 1)

\* import, for one session: the journal after the incoming entries from the
\* i-th on were merged into it, an entry already in the journal being skipped
RECURSIVE mergeEntries(_, _, _)
mergeEntries(file, incoming, i) ==
    IF i > Len(incoming) THEN file
    ELSE mergeEntries(
             IF hasEntry(file, incoming[i]) THEN file
             ELSE appendNote(file, incoming[i].timestamp, incoming[i].body,
                             incoming[i].tag),
             incoming, i + 1)

\* the bundle of a store: for every session directory with a journal, in the
\* order of the directory, its entries
RECURSIVE bundleFrom(_, _)
bundleFrom(store, i) ==
    IF i > Len(DirOrder) THEN <<>>
    ELSE (IF store[DirOrder[i]].kind = "dir"
             /\ store[DirOrder[i]].files["session_notes.md"].ex
          THEN << [session |-> DirOrder[i],
                   entries |-> noteEntries(store[DirOrder[i]].files["session_notes.md"])] >>
          ELSE <<>>) \o bundleFrom(store, i + 1)

\* export-memory without credentials: the container of the store, encrypted
\* with the cipher of the vault under the nonce n
exportMemory(store, m, n) == encryptText(bundleFrom(store, 1), m, n)

\* the entries the bundle holds for the session, none when it has none
incomingFor(bundle, name) ==
    IF \E i \in 1..Len(bundle) : bundle[i].session = name
    THEN bundle[CHOOSE i \in 1..Len(bundle) : bundle[i].session = name].entries
    ELSE <<>>

\* import-memory: the directory entry of a session after the merge at the given
\* time; an entry whose journal does not change is left as it is
importedEntry(entry, incoming, time) ==
    LET old == IF entry.kind = "dir" THEN entry
               ELSE [NoEntryV5 EXCEPT !.kind = "dir", !.mtime = time]
        merged == mergeEntries(old.files["session_notes.md"], incoming, 1)
    IN  IF entry.kind = "file" \/ merged = old.files["session_notes.md"] THEN entry
        ELSE writeJournal(old, merged, time)

\* the number of entries in the journals of a store
RECURSIVE entriesIn(_, _)
entriesIn(store, i) ==
    IF i > Len(DirOrder) THEN 0
    ELSE Len(noteEntries(store[DirOrder[i]].files["session_notes.md"]))
         + entriesIn(store, i + 1)

\* import-memory on a decrypted bundle at the given time: the store after the
\* entries of every session of the bundle were merged into its journal
importMemory(store, bundle, time) ==
    [n \in EntryNames |-> importedEntry(store[n], incomingFor(bundle, n), time)]

\* the number of entries a bundle holds, from its i-th session on
RECURSIVE incomingIn(_, _)
incomingIn(bundle, i) ==
    IF i > Len(bundle) THEN 0 ELSE Len(bundle[i].entries) + incomingIn(bundle, i + 1)

MaxEntries == 5

\* the import-memory operation on a container
ImportMemory(container) ==
    LET d == decryptText(container, machine)
        merged == importMemory(brain, d.text, clock)
        added == entriesIn(merged, 1) - entriesIn(brain, 1)
    IN  /\ entriesIn(brain, 1) < MaxEntries
        /\ UNCHANGED <<clock, appended, proj, machine, last, calls>>
        /\ IF ~d.ok
           THEN /\ result' = Failed("import_memory", d.error)
                /\ UNCHANGED <<brainRoot, brain>>
           ELSE /\ brainRoot' = TRUE
                /\ brain' = merged
                /\ result' = [op |-> "import_memory", status |-> "ok", added |-> added,
                              skipped |-> incomingIn(d.text, 1) - added]

\* the export-memory operation without credentials
ExportMemory(n) ==
    /\ ReadOnlyCall
    /\ result' = [op |-> "export_memory", status |-> "ok",
                  container |-> exportMemory(brain, machine, n)]

\* more than the retention window passes between two calls, once, when there
\* is a snapshot
TimePasses ==
    /\ clock < RetentionMinutes
    /\ \E n \in EntryNames : brain[n].backups # {}
    /\ clock' = clock + RetentionMinutes + 1
    /\ UNCHANGED <<brainRoot, brain, result, appended, proj, machine, last, calls>>

---------------------------------------------------------------------------
\* The states and the calls of the v5.0.0 server

N_Other == <<"o","k">>

\* a journal with the given notes, appended one minute after the other from
\* minute 1 on
RECURSIVE journalOf(_, _)
journalOf(notes, k) ==
    IF k = 0 THEN NoFile
    ELSE appendNote(journalOf(notes, k - 1), IsoMinute(k), notes[k].note, notes[k].tag)

Note(note, tag) == [note |-> note, tag |-> tag]

\* a store with the listed sessions a1 and b2 and the given notes in them
StoreOf(notesA, notesB) ==
    [n \in EntryNames |->
        CASE n = A1 -> [kind |-> "dir", mtime |-> 0, backups |-> {},
                        files |-> [Prof_Task EXCEPT !["session_notes.md"] =
                                       journalOf(notesA, Len(notesA))]]
          [] n = B2 -> [kind |-> "dir", mtime |-> 0, backups |-> {},
                        files |-> [Prof_Task EXCEPT !["session_notes.md"] =
                                       journalOf(notesB, Len(notesB))]]
          [] n = F0 -> [NoEntryV5 EXCEPT !.kind = "file"]
          [] OTHER -> NoEntryV5]

\* the stores the containers were exported from
SourceStores ==
    { StoreOf(<< Note(N_FixDb, Tag_Todo), Note(N_Other, <<>>) >>, <<>>),
      StoreOf(<< Note(N_FixDb, Tag_Todo) >>, << Note(N_Ruled, <<>>) >>) }

\* the containers import-memory is called with: exported on this machine, and
\* one exported on another machine
Containers ==
    { exportMemory(s, HomeMachine, 1) : s \in SourceStores }
    \cup { exportMemory(StoreOf(<< Note(N_Other, <<>>) >>, <<>>), OtherMachine, 1) }

SaveNoteV5Args ==
    { [note |-> N_FixDb, tag |-> Tag_Todo, session_id |-> A1],
      [note |-> <<>>,    tag |-> <<>>,     session_id |-> A1] }

\* the server starts with the sessions a1 and b2 and no journal
InitV5 ==
    /\ calls = <<>>
    /\ brainRoot = TRUE
    /\ brain = StoreOf(<<>>, <<>>)
    /\ clock = 0
    /\ result = [op |-> "none", status |-> "ok"]
    /\ appended = [n \in EntryNames |-> <<>>]
    /\ machine = HomeMachine
    /\ proj = NoProject
    /\ last = [proj |-> proj, fault |-> "none"]

NextV5 ==
    \/ \E a \in SaveNoteV5Args : SaveNoteV5(a.note, a.tag, a.session_id, clock + 1)
    \/ \E c \in Containers : ImportMemory(c)
    \/ ExportMemory(1)
    \/ TimePasses

SpecV5 == InitV5 /\ [][NextV5]_vars

---------------------------------------------------------------------------
\* Properties of the v5.0.0 additions

\* the container can be decrypted on this machine, and the bundle in it
Readable(container) == decryptText(container, machine).ok
BundleOf(container) == decryptText(container, machine).text

JournalIn(store, n) == store[n].files["session_notes.md"]

\* how often an entry with the timestamp and the body of e is in the journal
occurrences(file, e) ==
    LET entries == noteEntries(file)
    IN  Cardinality({ k \in 1..Len(entries) :
            entries[k].timestamp = e.timestamp /\ entries[k].body = e.body })

\* C15: import-memory is additive and idempotent: importing the same container
\* a second time changes nothing, an incoming entry whose timestamp and body
\* are those of an entry of the journal is not appended, and every journal
\* keeps its content as a prefix, so that no entry is deleted or overwritten.
C15_ImportAdditiveIdempotent ==
    \A c \in Containers : Readable(c) =>
        LET once == importMemory(brain, BundleOf(c), clock)
        IN  /\ importMemory(once, BundleOf(c), clock) = once
            /\ importMemory(once, BundleOf(c), clock + 1) = once
            /\ \A n \in EntryNames :
                   /\ JournalIn(brain, n).ex =>
                          /\ JournalIn(once, n).ex
                          /\ IsPrefix(JournalIn(brain, n).txt, JournalIn(once, n).txt)
                   /\ \A i \in 1..Len(incomingFor(BundleOf(c), n)) :
                          LET e == incomingFor(BundleOf(c), n)[i]
                          IN  IF hasEntry(JournalIn(brain, n), e)
                              THEN occurrences(JournalIn(once, n), e)
                                       = occurrences(JournalIn(brain, n), e)
                              ELSE once[n].kind = "dir" => hasEntry(JournalIn(once, n), e)

\* C15 witness: an import skipped an entry that was in the journal and appended
\* the others, and importing that container again appends nothing
C15_Witness ==
    /\ result.op = "import_memory" /\ result.status = "ok"
    /\ result.added > 0 /\ result.skipped > 0
    /\ \E c \in Containers :
           /\ Readable(c)
           /\ incomingIn(BundleOf(c), 1) = result.added + result.skipped
           /\ importMemory(brain, BundleOf(c), clock + 1) = brain

---------------------------------------------------------------------------
\* The session tools on a store with a directory whose name is not hexadecimal

Q_Year == <<"2","0","2","6">>
Id_Parent == <<".",".","/","a","1">>
Id_Nested == <<"a","1","/","b","2">>

\* the session_id arguments: listed, missing, not hexadecimal, with path
\* separators and dots, absent
SessionIdArgs == { A1, C3, G7, DotDot, Id_Parent, Id_Nested, <<>> }

SessionsSaveNoteArgs ==
    { [note |-> N_FixDb, tag |-> Tag_Todo, session_id |-> A1],
      [note |-> N_Other, tag |-> <<>>,     session_id |-> <<>>] }
    \cup { [note |-> N_FixDb, tag |-> <<>>, session_id |-> id] :
               id \in SessionIdArgs \ { A1, <<>> } }

SessionsRecallNotesArgs ==
    { [query |-> q, tag |-> <<>>, last_n |-> <<>>] : q \in { <<>>, Q_Year, Tag_Todo, Q_Fix } }

\* BRAIN_DIR holds the listed sessions a1 and g7, g7 with a plan without a
\* heading line and a blank task.md, and the file f0
InitSessions ==
    /\ calls = <<>>
    /\ brainRoot = TRUE
    /\ brain = [n \in EntryNames |->
                   CASE n = A1 -> [kind |-> "dir", mtime |-> 0, files |-> Prof_Task]
                     [] n = G7 -> [kind |-> "dir", mtime |-> 1, files |-> Prof_Plan]
                     [] n = F0 -> [kind |-> "file", mtime |-> 1, files |-> NoFiles]
                     [] OTHER -> NoEntry]
    /\ clock = 1
    /\ result = [op |-> "none", status |-> "ok"]
    /\ appended = [n \in EntryNames |-> <<>>]
    /\ proj = NoProject
    /\ machine = HomeMachine
    /\ last = [proj |-> NoProject, fault |-> "none"]

NextSessions ==
    \/ \E a \in SessionsSaveNoteArgs : SaveNote(a.note, a.tag, a.session_id, clock + 1)
    \/ \E a \in SessionsRecallNotesArgs : RecallNotes(a.query, a.tag, a.last_n)
    \/ RecallSessions(<<>>, <<>>, FALSE, "none")
    \/ \E id \in SessionIdArgs : RecallSession(id)

SpecSessions == InitSessions /\ [][NextSessions]_vars

\* the free text of an entry: what follows its header line
EntryBody(entry) == IF StartsWith(entry, T_EntryMark) THEN After(entry, <<"\n">>) ELSE entry

\* C21: the query of recall_notes is matched against the body of the entry
\* only: every entry returned for a query holds the query, ignoring case, in its
\* free text and not merely in its header line.
C21_QueryMatchesBodyOnly ==
    (result.op = "recall_notes" /\ result.query # <<>>) =>
        \A i \in 1..Len(result.results) :
            ContainsIgnoringCase(EntryBody(result.results[i].entry), result.query)

---------------------------------------------------------------------------
\* Failure of the ignore-list update of a vault write

\* the last call was a save_credentials on the project whose .gitignore update
\* failed after .credentials.enc was written
IgnoreUpdateFailed ==
    /\ result.op = "save_credentials" /\ result.path = P_Proj
    /\ last.fault = "gitignore" /\ last.proj.gitignore.ex

\* C22: when write-credentials writes .credentials.enc and the following
\* .gitignore update fails, the operation reports an error, the new encrypted
\* vault stays on disk and the previous content is not restored: the file
\* decrypts to the serialization of the new record, the .gitignore is as before,
\* and a later read returns the new record.
C22_FailedWriteNotRolledBack ==
    [][ IgnoreUpdateFailed =>
            /\ result.status = "failed"
            /\ proj.enc.ex
            /\ decryptText(trimPayload(proj.enc.txt), machine).ok
            /\ decryptText(trimPayload(proj.enc.txt), machine).text
                   = serializeCredentials(result.creds)
            /\ proj.gitignore = last.proj.gitignore
            /\ ReadDone' => (result'.status = "ok"
                             /\ SameRecord(result'.creds, result.creds)) ]_vars

\* C22 witness: a write over an existing vault of another record failed in the
\* .gitignore update and left a different encrypted file.
C22_Witness ==
    /\ IgnoreUpdateFailed /\ result.status = "failed"
    /\ last.proj.enc.ex /\ proj.enc.ex /\ proj.enc # last.proj.enc
    /\ decryptText(trimPayload(last.proj.enc.txt), machine).ok
    /\ decryptText(trimPayload(last.proj.enc.txt), machine).text
           # decryptText(trimPayload(proj.enc.txt), machine).text

---------------------------------------------------------------------------
\* The title of a session

\* the three-step rule on a text: the first heading line without its markers,
\* else the first non-blank line cut to 80 characters, else "Untitled session"
TitleRule(text) ==
    LET lines == SplitLines(text)
        h == FirstHeadingLine(lines)
        n == FirstNonBlankLine(lines)
    IN  IF h > 0 THEN Trim(StripHeadingMarker(lines[h]))
        ELSE IF n > 0 THEN SubSeq(Trim(lines[n]), 1, Min(80, Len(Trim(lines[n]))))
        ELSE T_Untitled

\* the task file, or the plan file when the task file is blank
ChosenText(name) ==
    IF Trim(readFileSafe(name, "task.md")) # <<>>
    THEN readFileSafe(name, "task.md")
    ELSE readFileSafe(name, "implementation_plan.md")

\* C23: extractTitle applies the same three-step rule to the task file or, when
\* the task file is blank, to the plan file: every title recall_sessions shows
\* is the rule's result on the chosen text, so a blank task file with a plan of
\* non-heading text yields the plan's first non-blank line.
C23_SameRuleForPlan ==
    (result.op = "recall_sessions" /\ result.status = "ok") =>
        \A i \in 1..Len(result.rows) :
            result.rows[i].title = TitleRule(ChosenText(result.rows[i].name))

---------------------------------------------------------------------------
\* save_note calls the host does not serialize: every step is one call of fs

Callers == {1, 2}

\* mutant of noteWrite: the file is replaced whatever existsSync returned
noteWrite_Truncate(file, exists, now, note, tag) ==
    FileOf(T_SessionNotes \o <<"\n","\n">> \o EntryBlock(now, note, tag))

\* the file appendNote leaves when its existsSync returned exists: writeFileSync
\* replaces the file, appendFileSync adds to what is there and creates the file
\* when it is missing
noteWrite(file, exists, now, note, tag) ==
    IF ~exists
    THEN FileOf(T_SessionNotes \o <<"\n","\n">> \o EntryBlock(now, note, tag))
    ELSE FileOf((IF file.ex THEN file.txt ELSE <<>>) \o EntryBlock(now, note, tag))

\* a save_note call is received: its arguments pass the checks of the handler
\* and the session directory is named by session_id
BeginSaveNote(note, tag, sid) ==
    /\ Len(calls) < Cardinality(Callers)
    /\ saveNoteTarget(note, sid).err = "" /\ sid # <<>>
    /\ calls' = Append(calls, [op |-> "save_note", pc |-> "folder", note |-> note,
                               tag |-> tag, sid |-> sid, now |-> <<>>,
                               exists |-> FALSE])
    /\ UNCHANGED <<brainRoot, brain, clock, result, appended, proj, machine, last>>

\* fs.existsSync(folderPath) of the handler
NoteFolderExists(c) ==
    /\ calls[c].op = "save_note" /\ calls[c].pc = "folder"
    /\ calls' = [calls EXCEPT ![c].pc =
                     IF brainRoot /\ brain[calls[c].sid].kind = "dir"
                     THEN "check" ELSE "mkdir"]
    /\ UNCHANGED <<brainRoot, brain, clock, result, appended, proj, machine, last>>

\* fs.mkdirSync(folderPath, { recursive: true })
NoteMkdir(c) ==
    /\ calls[c].op = "save_note" /\ calls[c].pc = "mkdir"
    /\ calls' = [calls EXCEPT ![c].pc = "check"]
    /\ brainRoot' = TRUE
    /\ brain' = IF brainRoot /\ brain[calls[c].sid].kind = "dir" THEN brain
                ELSE [brain EXCEPT ![calls[c].sid] =
                         [kind |-> "dir", mtime |-> clock, files |-> NoFiles]]
    /\ UNCHANGED <<clock, result, appended, proj, machine, last>>

\* appendNote reads the clock and calls fs.existsSync(filePath)
NoteFileExists(c) ==
    /\ calls[c].op = "save_note" /\ calls[c].pc = "check"
    /\ calls' = [calls EXCEPT ![c].pc = "write",
                              ![c].now = NowText(clock),
                              ![c].exists = brain[calls[c].sid].files["session_notes.md"].ex]
    /\ UNCHANGED <<brainRoot, brain, clock, result, appended, proj, machine, last>>

\* fs.writeFileSync or fs.appendFileSync of appendNote, and the handler returns
NoteWrite(c) ==
    LET a == calls[c]
        journal == brain[a.sid].files["session_notes.md"]
    IN  /\ a.op = "save_note" /\ a.pc = "write"
        /\ calls' = [calls EXCEPT ![c].pc = "done"]
        /\ brain' = [brain EXCEPT ![a.sid].files["session_notes.md"] =
                         noteWrite(journal, a.exists, a.now, a.note, a.tag),
                                  ![a.sid].mtime = IF journal.ex THEN @ ELSE clock]
        /\ appended' = [appended EXCEPT ![a.sid] =
                            Append(@, [now |-> a.now, note |-> a.note, tag |-> a.tag])]
        /\ result' = [op |-> "save_note", status |-> "ok", session |-> a.sid, tag |-> a.tag]
        /\ UNCHANGED <<brainRoot, clock, proj, machine, last>>

\* the notes of the two calls
RacingNotes ==
    { [note |-> N_FixDb, tag |-> Tag_Todo], [note |-> N_FixDb, tag |-> <<>>],
      [note |-> N_Other, tag |-> <<>>] }

\* the session a1 with or without a journal; c3 does not exist
InitRace ==
    /\ calls = <<>>
    /\ brainRoot = TRUE
    /\ \E journal \in { NoFile, FileOf(T_SessionNotes \o <<"\n","\n">>
                                         \o EntryBlock(NowText(0), N_Other, <<>>)) } :
           brain = [n \in EntryNames |->
                      IF n = A1
                      THEN [kind |-> "dir", mtime |-> 0,
                            files |-> [Prof_Task EXCEPT !["session_notes.md"] = journal]]
                      ELSE NoEntry]
    /\ clock = 1
    /\ result = [op |-> "none", status |-> "ok"]
    /\ appended = [n \in EntryNames |-> <<>>]
    /\ proj = NoProject
    /\ machine = HomeMachine
    /\ last = [proj |-> NoProject, fault |-> "none"]

NextRace ==
    \/ \E a \in RacingNotes, sid \in {A1, C3} : BeginSaveNote(a.note, a.tag, sid)
    \/ \E c \in 1..Len(calls) : NoteFolderExists(c)
    \/ \E c \in 1..Len(calls) : NoteMkdir(c)
    \/ \E c \in 1..Len(calls) : NoteFileExists(c)
    \/ \E c \in 1..Len(calls) : NoteWrite(c)

SpecRace == InitRace /\ [][NextRace]_vars

\* two save_note calls on the same session with different entries have completed
BothSaved ==
    /\ Len(calls) = 2
    /\ \A c \in 1..2 : calls[c].op = "save_note" /\ calls[c].pc = "done"
    /\ calls[1].sid = calls[2].sid
    /\ <<calls[1].note, calls[1].tag>> # <<calls[2].note, calls[2].tag>>

\* the entry of call c is in the journal of its session
NotePresent(c) ==
    Includes(brain[calls[c].sid].files["session_notes.md"].txt,
             EntryBlock(calls[c].now, calls[c].note, calls[c].tag))

\* C24 as stated: when two save_note operations on the same session interleave
\* at the granularity of filesystem calls, both notes are in session_notes.md
\* once both have completed, whether or not the journal existed beforehand.
C24_BothNotesPresent == BothSaved => (NotePresent(1) /\ NotePresent(2))

\* C24 amended: both notes are in session_notes.md once both operations have
\* completed unless both found the journal missing; then the journal holds the
\* header and the note of the operation that wrote last, and the other note is
\* lost. With a journal that existed beforehand both notes are always present.
C24_BothPresentUnlessBothSawNoJournal ==
    BothSaved =>
        /\ (calls[1].exists \/ calls[2].exists) => (NotePresent(1) /\ NotePresent(2))
        /\ (~calls[1].exists /\ ~calls[2].exists) =>
               /\ \E c \in 1..2 : NotePresent(c) /\ ~NotePresent(3 - c)
               /\ \E c \in 1..2 :
                      brain[calls[c].sid].files["session_notes.md"].txt =
                          T_SessionNotes \o <<"\n","\n">>
                              \o EntryBlock(calls[c].now, calls[c].note, calls[c].tag)

\* C24 witness: both calls found no journal, both completed, one note is lost.
C24_Witness ==
    /\ BothSaved /\ ~calls[1].exists /\ ~calls[2].exists
    /\ NotePresent(2) /\ ~NotePresent(1)

\* C24 witness of the other case: the calls overlapped on an existing journal.
C24_WitnessBoth ==
    /\ BothSaved /\ calls[1].exists /\ calls[2].exists
    /\ NotePresent(1) /\ NotePresent(2)

---------------------------------------------------------------------------
\* Vault calls the host does not serialize. Every step is one call of fs that
\* either takes effect or throws without effect; the three calls of one
\* ensureGitignore are taken together. A call that stops for good (the process
\* is killed) simply takes no further step.

\* mutant of migrationStep: the plaintext file is deleted before the encrypted
\* file is written
migrationStep_UnlinkFirst(pc) ==
    CASE pc = "readPlain" -> "unlink"
      [] pc = "unlink" -> "write"
      [] pc = "write" -> "gitignore"
      [] OTHER -> "done"

\* the order of the fs calls of the migration in readCredentials: the position
\* that follows pc
migrationStep(pc) ==
    CASE pc = "readPlain" -> "write"
      [] pc = "write" -> "unlink"
      [] pc = "unlink" -> "gitignore"
      [] OTHER -> "done"

\* mutant of migratedEnc: an encrypted file that exists is not replaced
migratedEnc_Exclusive(enc, content, m, n) ==
    IF enc.ex THEN enc ELSE FileOf(encryptText(content, m, n))

\* fs.writeFileSync(encPath, encryptText(content), "utf8") of the migration
migratedEnc(enc, content, m, n) == FileOf(encryptText(content, m, n))

VaultCall(op, pc, credentials, n) ==
    [op |-> op, pc |-> pc, credentials |-> credentials, n |-> n, content |-> <<>>,
     creds |-> <<>>, replaced |-> FALSE]

VaultUnchanged == UNCHANGED <<brainRoot, brain, clock, appended, machine, last>>

\* get_credentials is received for the project; validatePath accepts the path
BeginGetCredentials(n) ==
    /\ Len(calls) < Cardinality(Callers)
    /\ validatePath(P_Proj) = ""
    /\ calls' = Append(calls, VaultCall("get_credentials", "encExists", <<>>, n))
    /\ UNCHANGED <<proj, result>> /\ VaultUnchanged

\* fs.existsSync(encPath)
GetEncExists(c) ==
    /\ calls[c].op = "get_credentials" /\ calls[c].pc = "encExists"
    /\ calls' = [calls EXCEPT ![c].pc = IF proj.enc.ex THEN "readEnc" ELSE "readPlain"]
    /\ UNCHANGED <<proj, result>> /\ VaultUnchanged

\* fs.readFileSync(encPath), decryptText, parseCredentialsText; the call returns
GetReadEnc(c) ==
    LET r == readCredentials(proj, machine, calls[c].n, "none")
    IN  /\ calls[c].op = "get_credentials" /\ calls[c].pc = "readEnc"
        /\ proj.enc.ex
        /\ calls' = [calls EXCEPT ![c].pc = "done", ![c].creds = r.creds]
        /\ result' = [op |-> "get_credentials",
                      status |-> IF r.status = "error" THEN "failed" ELSE r.status,
                      path |-> P_Proj, creds |-> r.creds, error |-> r.error]
        /\ UNCHANGED proj /\ VaultUnchanged

\* readFileSafe(plainPath); a blank content ends the call with no credentials
GetReadPlain(c) ==
    LET content == IF proj.plain.ex THEN proj.plain.txt ELSE <<>>
        blank == Trim(content) = <<>>
    IN  /\ calls[c].op = "get_credentials" /\ calls[c].pc = "readPlain"
        /\ calls' = [calls EXCEPT ![c].pc = IF blank THEN "done" ELSE migrationStep("readPlain"),
                                  ![c].content = content,
                                  ![c].creds = IF blank THEN <<>>
                                               ELSE parseCredentialsText(content)]
        /\ result' = IF blank
                     THEN [op |-> "get_credentials", status |-> "none", path |-> P_Proj,
                           creds |-> <<>>, error |-> NoError]
                     ELSE result
        /\ UNCHANGED proj /\ VaultUnchanged

\* the result of a get_credentials that returns the credentials it parsed
Returned(c, next) ==
    IF next = "done"
    THEN [op |-> "get_credentials", status |-> "ok", path |-> P_Proj,
          creds |-> calls[c].creds, error |-> NoError]
    ELSE result

\* fs.writeFileSync(encPath, encrypted, "utf8") of the migration
GetWriteEnc(c) ==
    /\ calls[c].op = "get_credentials" /\ calls[c].pc = "write"
    /\ proj' = [proj EXCEPT !.enc = migratedEnc(proj.enc, calls[c].content, machine, calls[c].n)]
    /\ calls' = [calls EXCEPT ![c].pc = migrationStep("write"),
                              ![c].replaced = proj.enc.ex]
    /\ result' = Returned(c, migrationStep("write"))
    /\ VaultUnchanged

\* fs.unlinkSync(plainPath): throws when the file is gone, which ends the
\* migration
GetUnlink(c) ==
    LET next == IF proj.plain.ex THEN migrationStep("unlink") ELSE "done"
    IN  /\ calls[c].op = "get_credentials" /\ calls[c].pc = "unlink"
        /\ proj' = [proj EXCEPT !.plain = NoFile]
        /\ calls' = [calls EXCEPT ![c].pc = next]
        /\ result' = Returned(c, next)
        /\ VaultUnchanged

\* ensureGitignore(projectPath, CREDENTIALS_ENC_FILENAME) of the migration
GetGitignore(c) ==
    /\ calls[c].op = "get_credentials" /\ calls[c].pc = "gitignore"
    /\ proj' = [proj EXCEPT !.gitignore = ensureGitignore(@, CREDENTIALS_ENC_FILENAME)]
    /\ calls' = [calls EXCEPT ![c].pc = migrationStep("gitignore")]
    /\ result' = Returned(c, migrationStep("gitignore"))
    /\ VaultUnchanged

\* an fs call of the migration throws without effect: the catch of
\* readCredentials swallows it and the credentials parsed are returned
GetMigrationFails(c) ==
    /\ calls[c].op = "get_credentials"
    /\ calls[c].pc \in {"write", "unlink", "gitignore"}
    /\ calls' = [calls EXCEPT ![c].pc = "done"]
    /\ result' = Returned(c, "done")
    /\ UNCHANGED proj /\ VaultUnchanged

\* save_credentials is received for the project with a credentials object
BeginSaveCredentials(credentials, n) ==
    /\ Len(calls) < Cardinality(Callers)
    /\ validatePath(P_Proj) = ""
    /\ calls' = Append(calls, VaultCall("save_credentials", "write", credentials, n))
    /\ UNCHANGED <<proj, result>> /\ VaultUnchanged

\* fs.writeFileSync(encPath, encrypted, "utf8") of writeCredentials
SaveWriteEnc(c) ==
    /\ calls[c].op = "save_credentials" /\ calls[c].pc = "write"
    /\ proj' = [proj EXCEPT !.enc =
                    FileOf(encryptText(serializeCredentials(calls[c].credentials),
                                       machine, calls[c].n))]
    /\ calls' = [calls EXCEPT ![c].pc = "ignoreEnc", ![c].replaced = proj.enc.ex]
    /\ UNCHANGED result /\ VaultUnchanged

\* the two ensureGitignore calls of writeCredentials; the handler returns after
\* the second
SaveGitignore(c) ==
    LET first == calls[c].pc = "ignoreEnc"
    IN  /\ calls[c].op = "save_credentials" /\ calls[c].pc \in {"ignoreEnc", "ignorePlain"}
        /\ proj' = [proj EXCEPT !.gitignore =
                        ensureGitignore(@, IF first THEN CREDENTIALS_ENC_FILENAME
                                                    ELSE CREDENTIALS_FILENAME)]
        /\ calls' = [calls EXCEPT ![c].pc = IF first THEN "ignorePlain" ELSE "done"]
        /\ result' = IF first THEN result
                     ELSE [op |-> "save_credentials", status |-> "ok", path |-> P_Proj,
                           creds |-> calls[c].credentials, error |-> NoError]
        /\ VaultUnchanged

\* the project holds only the legacy plaintext file, with or without a .gitignore
InitVaultRace ==
    /\ calls = <<>>
    /\ brainRoot = FALSE
    /\ brain = [n \in EntryNames |-> NoEntry]
    /\ clock = 1
    /\ appended = [n \in EntryNames |-> <<>>]
    /\ result = [op |-> "none", status |-> "ok"]
    /\ machine = HomeMachine
    /\ \E g \in {NoFile, FileOf(GitignoreText)} :
           proj = [ex |-> TRUE, plain |-> FileOf(LegacyText), enc |-> NoFile,
                   gitignore |-> g, context |-> NoFile]
    /\ last = [proj |-> proj, fault |-> "none"]

NextVaultRace ==
    \/ \E n \in Nonces : BeginGetCredentials(n)
    \/ \E r \in {R_Example, R_Two} : BeginSaveCredentials(r, 2)
    \/ \E c \in 1..Len(calls) : GetEncExists(c)
    \/ \E c \in 1..Len(calls) : GetReadEnc(c)
    \/ \E c \in 1..Len(calls) : GetReadPlain(c)
    \/ \E c \in 1..Len(calls) : GetWriteEnc(c)
    \/ \E c \in 1..Len(calls) : GetUnlink(c)
    \/ \E c \in 1..Len(calls) : GetGitignore(c)
    \/ \E c \in 1..Len(calls) : GetMigrationFails(c)
    \/ \E c \in 1..Len(calls) : SaveWriteEnc(c)
    \/ \E c \in 1..Len(calls) : SaveGitignore(c)

SpecVaultRace == InitVaultRace /\ [][NextVaultRace]_vars

\* what read-credentials returns in the current state
ReadNow == readCredentials(proj, machine, 1, "none")

\* a get_credentials g and a save_credentials w have both completed
RaceDone(g, w) ==
    /\ Len(calls) = 2 /\ {g, w} = {1, 2}
    /\ calls[g].op = "get_credentials" /\ calls[g].pc = "done"
    /\ calls[w].op = "save_credentials" /\ calls[w].pc = "done"

\* C25 as stated: a get_credentials that interleaves with a save_credentials on
\* a project holding only a legacy plaintext file never replaces the saved
\* record: after both complete, read-credentials returns the saved record.
C25_SavedRecordSurvives ==
    \A g, w \in Callers :
        RaceDone(g, w) =>
            (ReadNow.status = "ok" /\ SameRecord(ReadNow.creds, calls[w].credentials))

\* C25 amended: after both complete, read-credentials returns the saved record
\* unless the migration wrote .credentials.enc after save_credentials did; then
\* the migration has replaced the saved vault and read-credentials returns the
\* migrated legacy content.
C25_LastWriterWins ==
    \A g, w \in Callers :
        RaceDone(g, w) =>
            /\ ReadNow.status = "ok"
            /\ IF calls[g].replaced
               THEN ReadNow.creds = parseCredentialsText(LegacyText)
               ELSE SameRecord(ReadNow.creds, calls[w].credentials)

\* C25 witness: both calls completed and the migration replaced the saved vault.
C25_Witness ==
    \E g, w \in Callers :
        /\ RaceDone(g, w) /\ calls[g].replaced
        /\ ReadNow.creds = parseCredentialsText(LegacyText)
        /\ ~SameRecord(ReadNow.creds, calls[w].credentials)

\* only get_credentials calls have been received
OnlyReads == \A c \in 1..Len(calls) : calls[c].op = "get_credentials"

HoldsOriginal(text) ==
    \/ proj.plain.ex /\ proj.plain.txt = text
    \/ /\ proj.enc.ex
       /\ decryptText(trimPayload(proj.enc.txt), machine).ok
       /\ decryptText(trimPayload(proj.enc.txt), machine).text = text

---------------------------------------------------------------------------
\* Listed sessions and recall_session

\* the id is shown by recall_sessions: getBrainFoldersSorted returns it
Listed(id) ==
    \E i \in 1..Len(getBrainFoldersSorted) : getBrainFoldersSorted[i].name = id

\* C27: every session ID recall_sessions shows is accepted by recall_session:
\* recall_session with a listed ID passes validateSessionId and returns the
\* artifacts of that session, not a validation error.
C27_ListedIdsAccepted ==
    [][ \A id \in SessionIdArgs :
            (Listed(id) /\ RecallSession(id)) =>
                /\ result'.op = "recall_session" /\ result'.status = "ok"
                /\ result'.session = id
                /\ result'.artifacts = readAllArtifacts(id) ]_vars

---------------------------------------------------------------------------
\* Notes saved to a session that does not exist

\* the id is well-formed and names no entry of BRAIN_DIR
UnknownSession(id) ==
    validateSessionId(id) = "" /\ id \in EntryNames /\ brain[id].kind = "none"

\* the directory holds a journal and no task, walkthrough or plan content
NotesOnly(id) ==
    /\ brainRoot /\ brain[id].kind = "dir"
    /\ brain[id].files["session_notes.md"].ex
    /\ ~hasArtifacts(id)

\* the session does not show in the result of recall_sessions or recall_notes
Unseen(id) ==
    /\ ~Listed(id)
    /\ (result.op = "recall_sessions" /\ result.status = "ok") =>
           \A i \in 1..Len(result.rows) : result.rows[i].name # id
    /\ result.op = "recall_notes" =>
           \A i \in 1..Len(result.results) : result.results[i].sessionId # id

\* C28: save_note with a well-formed session_id that names no directory creates
\* the directory and a journal holding the note and reports success; as long as
\* the directory holds no task, walkthrough or plan content the session is not
\* listed, recall_sessions does not show it and recall_notes returns none of
\* its notes.
C28_NoteToUnknownSessionIsUnseen ==
    [][ /\ \A a \in SessionsSaveNoteArgs :
              (UnknownSession(a.session_id)
                   /\ SaveNote(a.note, a.tag, a.session_id, clock + 1)) =>
                  /\ result' = [op |-> "save_note", status |-> "ok",
                                session |-> a.session_id, tag |-> a.tag]
                  /\ brainRoot' /\ brain'[a.session_id].kind = "dir"
                  /\ brain'[a.session_id].files =
                         [NoFiles EXCEPT !["session_notes.md"] =
                              FileOf(T_SessionNotes \o <<"\n","\n">>
                                       \o EntryBlock(NowText(clock + 1), a.note, a.tag))]
        /\ \A id \in EntryNames : NotesOnly(id)' => Unseen(id)' ]_vars

\* C28 witness: two notes were saved to the unknown session c3 and a later
\* recall_notes without filters returned nothing.
C28_Witness ==
    /\ NotesOnly(C3) /\ Len(appended[C3]) = 2
    /\ result.op = "recall_notes" /\ result.query = <<>> /\ result.tag = <<>>
    /\ result.results = <<>>

---------------------------------------------------------------------------
\* A vault write replaces the vault

\* every section and key of the record a is a section and key of the record b
OnlyFrom(a, b) ==
    \A sec \in DOMAIN AsMap(a) :
        /\ sec \in DOMAIN AsMap(b)
        /\ DOMAIN AsMap(a)[sec] \subseteq DOMAIN AsMap(b)[sec]

\* the record the previous vault held, <<>> when there was none to read
PreviousRecord ==
    LET r == readCredentials(last.proj, machine, 1, "none")
    IN  IF last.proj.enc.ex /\ r.status = "ok" THEN r.creds ELSE <<>>

\* C29: write-credentials replaces the whole vault: after a successful write of
\* R2, whatever an earlier write or an existing vault held, the vault is the
\* serialization of R2 alone and read-credentials returns what that text
\* parses to, with no section or key that is not in R2.
C29_WriteReplacesVault ==
    [][ WriteDone =>
            /\ decryptText(trimPayload(proj.enc.txt), machine).ok
            /\ decryptText(trimPayload(proj.enc.txt), machine).text
                   = serializeCredentials(result.creds)
            /\ ReadNow.status = "ok"
            /\ OnlyFrom(ReadNow.creds, result.creds)
            /\ ReadDone' => (result'.status = "ok" /\ result'.creds = ReadNow.creds
                             /\ OnlyFrom(result'.creds, result.creds)) ]_vars

\* C29 witness: the vault held a record with the section db, a write of a record
\* without it succeeded, and a read returns no section db.
C29_Witness ==
    /\ WriteDone
    /\ \E sec \in DOMAIN AsMap(PreviousRecord) : sec \notin DOMAIN AsMap(result.creds)
    /\ DOMAIN AsMap(ReadNow.creds) = DOMAIN AsMap(result.creds)
    /\ SameRecord(ReadNow.creds, result.creds)

---------------------------------------------------------------------------
\* The paths of the session tools

\* s.split("/")
SplitSlash(s) == Pieces(s, { q \in 1..Len(s) : s[q] = "/" }, 1)

\* the segments of an absolute path after path.normalize: empty segments and "."
\* are dropped, ".." removes the segment before it and stays at the root
RECURSIVE normalSegments(_, _, _)
normalSegments(parts, i, stack) ==
    IF i > Len(parts) THEN stack
    ELSE IF parts[i] = <<>> \/ parts[i] = <<".">> THEN normalSegments(parts, i + 1, stack)
    ELSE IF parts[i] = DotDot
         THEN normalSegments(parts, i + 1,
                             IF stack = <<>> THEN stack ELSE SubSeq(stack, 1, Len(stack) - 1))
         ELSE normalSegments(parts, i + 1, Append(stack, parts[i]))

\* path.join(base, name) for an absolute base, as its segments
pathJoin(base, name) == normalSegments(SplitSlash(base \o <<"/">> \o name), 1, <<>>)

\* path.join(BRAIN_DIR, id) is the entry of BRAIN_DIR named id
DirectChild(id) ==
    pathJoin(BRAIN_DIR, id) = Append(pathJoin(BRAIN_DIR, <<>>), id)

Id_Dot == <<".">>
Id_Deep == <<"a","1","/",".",".","/",".",".","/","e">>
Id_Dash == <<"-">>
Id_Upper == <<"A","F","-","0","9">>

\* the session_id arguments path.join is applied to
PathIdArgs == SessionIdArgs \cup { Id_Dot, Id_Deep, Id_Dash, Id_Upper, <<"/">>, B2 }

\* C30: for every session_id, save_note and recall_session either reject it or
\* work on the directory brain/<session_id> directly under the session root:
\* an accepted id joins to a direct child of BRAIN_DIR with that name, every
\* call that was not rejected worked on such a child, and a journal exists only
\* in the directories save_note was directed to.
C30_PathConfinement ==
    /\ \A id \in PathIdArgs : validateSessionId(id) = "" => DirectChild(id)
    /\ (result.op \in {"save_note", "recall_session"} /\ result.status # "failed") =>
           /\ DirectChild(result.session)
           /\ result.session \in EntryNames
    /\ \A n \in EntryNames :
           brain[n].files["session_notes.md"].ex =>
               /\ appended[n] # <<>> /\ DirectChild(n)
               /\ \A k \in 1..Len(appended[n]) :
                      Includes(brain[n].files["session_notes.md"].txt,
                               EntryBlock(appended[n][k].now, appended[n][k].note,
                                          appended[n][k].tag))

\* C30 witness: ids that leave the session root or name a nested directory are
\* among the arguments, and save_note with an accepted id that named no
\* directory has written brain/c3/session_notes.md.
C30_Witness ==
    /\ ~DirectChild(DotDot) /\ ~DirectChild(Id_Parent) /\ ~DirectChild(Id_Nested)
    /\ validateSessionId(Id_Parent) # ""
    /\ result.op = "save_note" /\ result.status = "ok" /\ result.session = C3
    /\ brain[C3].files["session_notes.md"].ex
    /\ pathJoin(BRAIN_DIR, C3) = <<<<"h">>, <<".","g","e","m","i","n","i">>,
                                    <<"a","n","t","i","g","r","a","v","i","t","y">>,
                                    <<"b","r","a","i","n">>, C3>>

====
